---- MODULE Spec2Model ----
(***************************************************************************)
(* Session lifecycle coordinator (SessionManager), timeline store          *)
(* (DatabaseManager), file activity monitor (FileMonitor) and              *)
(* version-control monitor (GitMonitor) of stacktrace.                     *)
(*                                                                         *)
(* Every async function of the program runs up to an await, is suspended   *)
(* there and is resumed later.  A call in flight is a record of the        *)
(* sequence calls: the function called (op), the await it is suspended at  *)
(* (pc), what it waits for (wait) and its local variables.  One step of    *)
(* the model runs one promise job: one async function from the await it is *)
(* suspended at to its next await or to its return.  A call that waits for *)
(* a resolved promise (wait = "tick"), among them the promise of an async  *)
(* function that has returned, resumes in the microtask queue, before any  *)
(* timer, watcher event or I/O completion; a call that waits for the       *)
(* repository, the watcher or a row write (wait = "io") resumes once the   *)
(* microtask queue is empty.  A read of the repository is made by a git    *)
(* process some time between the call of the read and its completion       *)
(* (wait = "git" until the process has read).                              *)
(*                                                                         *)
(* A path is a sequence of segments.  A store row is a record; a NULL      *)
(* column, a null id and an absent timestamp are Null.  The store's clock  *)
(* (datetime('now')) counts seconds: now is the second its last write was  *)
(* stamped with, and the next write falls in that second or a later one.   *)
(* The timestamp of a pending file change (new Date()) is the counter      *)
(* nChanges, which numbers the tracked changes.  A watcher is named by the *)
(* session id its startWatching call was given.                            *)
(*                                                                         *)
(* The store is a file that outlives the process: a coordinator starts on  *)
(* the rows an earlier one left.  The class DatabaseManager has no method  *)
(* insertSnapshot or insertGitEvent, which the monitors call: with the     *)
(* class as it is (storeWrites false) the call throws a TypeError that the *)
(* monitor catches; with the two methods of the design (storeWrites true)  *)
(* the row is appended and the caller waits for the write.                 *)
(***************************************************************************)
EXTENDS Integers, Sequences, FiniteSets, TLC

\* ------------------------------------------------------------------ bounds
MaxSessions == 2
MaxChanges  == 2
MaxFlushes  == 2
MaxHash     == 4
MaxPolls    == 2
MaxPull     == 6
MaxCalls    == 2

\* ------------------------------------------------------- program constants
Null == 0
RecentCount == 5

\* ---------------------------------------------------------- the file system
Cwd == <<"work">>
ProjDir  == <<"tmp", "proj">>
PlainDir == <<"work", "plain">>
NoPath == <<>>

\* paths a caller may hand to startSession: an absolute repository, a
\* relative directory that is no repository, and a path that does not exist
PathInputs ==
  { [abs |-> TRUE,  segs |-> <<"tmp", "proj">>],
    [abs |-> FALSE, segs |-> <<"plain">>],
    [abs |-> TRUE,  segs |-> <<"tmp", "missing">>] }

ExistingDirs == {ProjDir, PlainDir}
Repositories == {ProjDir}
FileNames == {"a.js", "b.js"}
ChangeTypes == {"added", "modified", "deleted"}
Branches == {"main", "feature/x"}
TreeCases == { {}, {"modified"}, {"deleted"} }

\* the operations of the environment that can fail: the store connection
\* of the file monitor and chokidar.watch ("watch"), the store connection of
\* the git monitor ("gmInit"), watcher.close() ("close"), a row write of the
\* git monitor ("write"), the capture of one file ("file"), and the reads of
\* the repository ("branch", "log", "diff", "status")
FaultKinds == {"watch", "gmInit", "close", "write", "file", "branch", "log",
               "diff", "status"}

\* the outcomes of an operation of kind k when the operations in F can fail
Oks(F, k) == IF k \in F THEN BOOLEAN ELSE {TRUE}

\* ------------------------------------------------------------------- state
VARIABLES
  sessions,        \* store: sessions table, row i has id i
  snapshots,       \* store: snapshots table
  gitEvents,       \* store: git_events table
  now,             \* store clock: the second its last write was stamped
  storeWrites,     \* store: the class has insertSnapshot and insertGitEvent
  smInitialized,   \* SessionManager.initialized
  smDbOpen,        \* SessionManager.dbManager.db # null
  currentSession,  \* SessionManager.currentSession (its id, or Null)
  result,          \* outcome of the coordinator call that returned last
  calls,           \* the async calls in flight
  fmIsWatching, fmSessionId, fmProjectPath,
  fmWatcher,       \* FileMonitor.watcher (the watcher's name, or Null)
  fmLive,          \* the watchers that were created and not closed
  fmInterval,
  fmOrphanTimers,  \* snapshot intervals whose handle was overwritten
  activeFiles,     \* FileMonitor.activeFiles, a Map in insertion order
  flushes,         \* captureSnapshot runs that read the pending mapping
  nChanges,        \* number of tracked changes so far
  gmIsMonitoring, gmGit, gmSessionId, gmProjectPath, gmInterval, gmDbOpen,
  gmOrphanTimers,  \* poll intervals whose handle was overwritten
  lastCommitHash, lastBranch,
  repoBranch,      \* repository: checked-out branch
  repoLog,         \* repository: commit hashes, newest first
  repoTree,        \* repository: names of the non-empty status lists
  nextHash,        \* repository: next fresh commit hash
  polls,           \* poll timer firings so far
  lastPoll         \* the poll cycle that returned last

storeVars == <<sessions, snapshots, gitEvents, now, storeWrites>>
smVars == <<smInitialized, smDbOpen, currentSession>>
fmVars == <<fmIsWatching, fmSessionId, fmProjectPath, fmWatcher, fmLive,
            fmInterval, fmOrphanTimers, activeFiles>>
fmAux == <<flushes, nChanges>>
gmVars == <<gmIsMonitoring, gmGit, gmSessionId, gmProjectPath, gmInterval,
            gmOrphanTimers, gmDbOpen, lastCommitHash, lastBranch>>
repoVars == <<repoBranch, repoLog, repoTree, nextHash>>
pollVars == <<polls, lastPoll>>
vars == <<sessions, snapshots, gitEvents, now, storeWrites, smInitialized,
          smDbOpen, currentSession, result, calls, fmIsWatching, fmSessionId,
          fmProjectPath, fmWatcher, fmLive, fmInterval, fmOrphanTimers,
          activeFiles, flushes, nChanges, gmIsMonitoring, gmGit,
          gmSessionId, gmProjectPath, gmInterval, gmOrphanTimers, gmDbOpen,
          lastCommitHash, lastBranch, repoBranch, repoLog, repoTree,
          nextHash, polls, lastPoll>>

\* ----------------------------------------------------------------- helpers
Take(s, n) == SubSeq(s, 1, IF n < Len(s) THEN n ELSE Len(s))

Reverse(s) == [ i \in 1..Len(s) |-> s[Len(s) + 1 - i] ]

Remove(s, i) == SubSeq(s, 1, i - 1) \o SubSeq(s, i + 1, Len(s))

\* path.resolve: an absolute path is kept, a relative one is joined to cwd
Resolve(p) == IF p.abs THEN p.segs ELSE Cwd \o p.segs

\* a path check that accepts every path
ExistsDirAlways(segs) == segs = segs

\* fs.existsSync on a directory
ExistsDir(segs) == segs \in ExistingDirs

\* the number of leading segments two paths share
CommonLength(from, to) ==
  CHOOSE k \in 0..Len(from) :
    /\ k <= Len(to)
    /\ SubSeq(from, 1, k) = SubSeq(to, 1, k)
    /\ \A j \in (k + 1)..Len(from) :
         j <= Len(to) => SubSeq(from, 1, j) # SubSeq(to, 1, j)

\* what path.relative gives for a from that is no string: it throws
PathTypeError == <<"ERR_INVALID_ARG_TYPE">>

\* path.relative(from, to): one ".." for every segment of from below the
\* common prefix, then the segments of to below it
Relative(from, to) ==
  IF from = NoPath THEN PathTypeError
  ELSE [ i \in 1..(Len(from) - CommonLength(from, to)) |-> ".." ]
       \o SubSeq(to, CommonLength(from, to) + 1, Len(to))

\* --------------------------------------------------------- timeline store
NoSession == [id |-> Null, project_path |-> NoPath, start_time |-> Null,
              end_time |-> Null, status |-> "none"]

\* the second of the last write an earlier process made to the store
StoreAge == 1

\* the seconds datetime('now') can give at the next write: the second of
\* the write before it or a later one
ClockReadings == {now, now + 1}

\* INSERT INTO sessions (project_path, start_time, status) in the second
\* time: the new table
createSession(projectPath, time) ==
  Append(sessions, [id |-> Len(sessions) + 1, project_path |-> projectPath,
                    start_time |-> time, end_time |-> Null,
                    status |-> "active"])

\* the update without its end_time assignment
endSessionNoEndTime(sessionId, time) ==
  [ i \in 1..Len(sessions) |->
      IF sessions[i].id = sessionId /\ sessions[i].status = "active"
        THEN [sessions[i] EXCEPT !.status = "completed"]
        ELSE sessions[i] ]

\* the update without the status condition of its WHERE clause
endSessionAnyStatus(sessionId, time) ==
  [ i \in 1..Len(sessions) |->
      IF sessions[i].id = sessionId
        THEN [sessions[i] EXCEPT !.end_time = time, !.status = "completed"]
        ELSE sessions[i] ]

\* UPDATE sessions SET end_time, status WHERE id = ? AND status = 'active'
endSession(sessionId, time) ==
  [ i \in 1..Len(sessions) |->
      IF sessions[i].id = sessionId /\ sessions[i].status = "active"
        THEN [sessions[i] EXCEPT !.end_time = time, !.status = "completed"]
        ELSE sessions[i] ]

\* result.changes > 0 of endSession
endSessionChanged(sessionId) ==
  \E i \in 1..Len(sessions) :
      sessions[i].id = sessionId /\ sessions[i].status = "active"

\* the rows whose status is 'active'
ActiveRows == { i \in 1..Len(sessions) : sessions[i].status = "active" }

\* the query with the wrong status literal: it never finds the open session
getActiveSessionWrongStatus ==
  IF \E i \in 1..Len(sessions) : sessions[i].status = "completed"
    THEN sessions[CHOOSE i \in 1..Len(sessions) :
                    sessions[i].status = "completed"]
    ELSE NoSession

\* SELECT * FROM sessions WHERE status = 'active'
\* ORDER BY start_time DESC LIMIT 1 (undefined is NoSession)
getActiveSession ==
  IF ActiveRows = {} THEN NoSession
  ELSE sessions[CHOOSE i \in ActiveRows :
         \A j \in ActiveRows :
            \/ sessions[j].start_time < sessions[i].start_time
            \/ (sessions[j].start_time = sessions[i].start_time /\ i <= j)]

getSessionById(tbl, sessionId) ==
  IF sessionId \in 1..Len(tbl) THEN tbl[sessionId] ELSE NoSession

\* the counts without the WHERE session_id = ? clause
getSessionStatsAllRows(sessionId) ==
  [snapshots |-> Len(snapshots), gitEvents |-> Len(gitEvents)]

\* getSessionStats(sessionId): the row counts of one session
getSessionStats(sessionId) ==
  [snapshots |-> Cardinality({ r \in 1..Len(snapshots) :
                                 snapshots[r].session_id = sessionId }),
   gitEvents |-> Cardinality({ r \in 1..Len(gitEvents) :
                                 gitEvents[r].session_id = sessionId })]

\* the method insertSnapshot of the design: append one snapshots row;
\* session_id is NOT NULL, so a null session id
\* is a constraint failure and no row is written.  The columns file_size
\* and last_modified are left out.  The columns change and flush are
\* bookkeeping: the tracked change the row records and the captureSnapshot
\* run that wrote it.
insertSnapshot(tbl, sessionId, fileInfo, flushId) ==
  IF sessionId = Null THEN tbl
  ELSE Append(tbl, [session_id |-> sessionId, file_path |-> fileInfo.path,
                    change_type |-> fileInfo.changeType,
                    change |-> fileInfo.timestamp, flush |-> flushId])

\* the method insertGitEvent of the design: append one git_events row; it
\* fails without a connection or a session id
insertGitEvent(tbl, dbOpen, sessionId, eventData) ==
  IF ~dbOpen \/ sessionId = Null THEN tbl
  ELSE Append(tbl, [session_id |-> sessionId,
                    event_type |-> eventData.eventType,
                    branch_name |-> eventData.branchName,
                    commit_hash |-> eventData.commitHash,
                    files_changed |-> eventData.filesChanged])

\* ----------------------------------------------------------- calls in flight
NoBranch == ""

UnknownBranch == "unknown"

\* what a read of the repository has given before the git process has read,
\* and what its caller gets when the read fails: 'unknown' from the catch of
\* getCurrentBranch, [] from the catch of getRecentCommits, no status list
NotSeen == [branch |-> UnknownBranch, log |-> <<>>, tree |-> {}]

\* the locals of a call that has not yet assigned any of them.  The field
\* seen is what the git process of the read the call waits for has read.
\* The fields sid, base and wrote are bookkeeping of a poll cycle: the
\* session id the monitor held when the timer fired, the last-known hash its
\* commits were compared with, and the rows it wrote.
NewCall(op, pc, wait) ==
  [op |-> op, pc |-> pc, wait |-> wait, path |-> NoPath, id |-> Null,
   active |-> Null, err |-> "", flush |-> 0, closing |-> Null,
   read |-> FALSE, seen |-> NotSeen, branch |-> NoBranch,
   recent |-> <<>>, todo |-> <<>>, tree |-> {}, fileStarted |-> FALSE,
   gitStarted |-> FALSE, stopped |-> FALSE, failed |-> FALSE,
   stats |-> [snapshots |-> 0, gitEvents |-> 0],
   latest |-> Null, sid |-> Null, base |-> Null, wrote |-> <<>>,
   rejected |-> FALSE]

\* the calls of the coordinator's interface
CoordinatorOps == {"startSession", "stopSession", "cleanup",
                   "getSessionStatus", "isSessionActive"}

CoordinatorCalls ==
  { c \in 1..Len(calls) : calls[c].op \in CoordinatorOps }

\* the captureSnapshot run call c awaits has returned
FlushDone(c) == calls[c].flush = 0 \/ flushes[calls[c].flush].done

\* call c resumes in the microtask queue
Pending(c) ==
  \/ calls[c].wait = "tick"
  \/ calls[c].wait = "flush" /\ FlushDone(c)

\* the microtask queue is empty: timers, watcher events and I/O completions
\* run
Quiet == \A c \in 1..Len(calls) : ~Pending(c)

\* call c can take a step: the pending call that has waited longest, or,
\* with the microtask queue empty, any call whose git process may read the
\* repository ("git") or whose I/O may have completed ("io")
Ready(c) ==
  \/ Pending(c) /\ \A d \in 1..(c - 1) : ~Pending(d)
  \/ calls[c].wait \in {"git", "io"} /\ Quiet

\* the locals of call c; call 0 is a cleanup() that is being called
Locals(c) == IF c = 0 THEN NewCall("cleanup", "call", "none") ELSE calls[c]

\* call c is suspended, at the end of the queue, with the locals rec
To(c, rec) == calls' = Append(Remove(calls, c), rec)

\* call c has returned or thrown
Done(c) == calls' = Remove(calls, c)

\* how long watcher.close() takes: its promise is resolved when it returns,
\* or it resolves after the handles of the watched directories are released
CloseWaits == {"tick", "io"}

\* ------------------------------------------------------------ file monitor
KeyIndex(m, k) ==
  IF \E i \in 1..Len(m) : m[i].path = k
    THEN CHOOSE i \in 1..Len(m) : m[i].path = k
    ELSE 0

\* Map.prototype.set: replace the value of an existing key in place, else
\* append the new key
MapSet(m, k, v) ==
  IF KeyIndex(m, k) = 0 THEN Append(m, v)
  ELSE [m EXCEPT ![KeyIndex(m, k)] = v]

\* the pending mapping after trackFileChange(filePath, changeType): nothing
\* is tracked while not watching, and the error path.relative throws on a
\* null projectPath is caught
trackFileChange(filePath, changeType) ==
  IF ~fmIsWatching THEN activeFiles
  ELSE IF Relative(fmProjectPath, filePath) = PathTypeError
    THEN activeFiles
  ELSE MapSet(activeFiles, Relative(fmProjectPath, filePath),
              [path |-> Relative(fmProjectPath, filePath),
               absolutePath |-> filePath,
               changeType |-> changeType,
               timestamp |-> nChanges + 1])

\* the loop body of captureSnapshot for one pending file whose stat did not
\* throw (142-155): with the store class as it is the call of insertSnapshot
\* throws a TypeError and no row is written
CaptureFile(tbl, sessionId, fileInfo, flushId) ==
  IF storeWrites THEN insertSnapshot(tbl, sessionId, fileInfo, flushId)
  ELSE tbl

\* how many of the n files a capture run goes on with can throw inside the
\* loop body before one reaches its awaited row write: every one with the
\* store class as it is, any number when the stat of a file can throw
\* (F has "file"), else none.  A throw is caught at once (159) and the loop
\* goes on without a suspension.
Skips(F, n) ==
  IF ~storeWrites THEN {n}
  ELSE IF "file" \in F THEN 0..n
  ELSE {0}

\* an error on one file ends the loop over the files
fileErrorAbortsAlways == TRUE

\* an error on one file ends the loop over the files: never, the body of
\* the loop is inside its own try/catch
fileErrorAborts == FALSE

\* the record kept of a captureSnapshot run that has returned
FinishedCapture ==
  [filesToCapture |-> <<>>, idx |-> 0, began |-> 0, sids |-> <<>>,
   done |-> TRUE]

\* the record of a captureSnapshot run suspended on the row write of file
\* idx of its copy files
SuspendedCapture(files, idx, began, sids) ==
  [filesToCapture |-> files, idx |-> idx, began |-> began, sids |-> sids,
   done |-> FALSE]

\* captureSnapshot without the empty check: it records an empty snapshot
captureSnapshotRecordsEmpty(watching, sessionId, skip) ==
  IF sessionId = Null \/ ~watching
    THEN [snapshots |-> snapshots, flushes |-> flushes,
          activeFiles |-> activeFiles]
  ELSE IF Len(activeFiles) = 0
    THEN [snapshots |-> Append(snapshots,
                          [session_id |-> sessionId, file_path |-> NoPath,
                           change_type |-> "none", change |-> Null,
                           flush |-> Null]),
          flushes |-> flushes, activeFiles |-> activeFiles]
  ELSE IF skip >= Len(activeFiles)
    THEN [snapshots |-> snapshots, flushes |-> flushes,
          activeFiles |-> <<>>]
  ELSE [snapshots |-> CaptureFile(snapshots, sessionId,
                                  activeFiles[skip + 1], Len(flushes) + 1),
        flushes |-> Append(flushes,
                      SuspendedCapture(activeFiles, skip + 1, nChanges,
                        [ i \in 1..(skip + 1) |-> sessionId ])),
        activeFiles |-> activeFiles]

\* captureSnapshot() up to its first suspension (125-167), the first skip
\* files of the pending mapping throwing in the loop body: the guard, the
\* copy of the pending mapping and the empty check; then the loop runs past
\* the files that throw, writes the row of the first file that does not and
\* is suspended on that write; when no file is left it clears the pending
\* mapping and returns.  Gives the snapshots table, the list of suspended
\* captureSnapshot runs and the pending mapping.
captureSnapshot(watching, sessionId, skip) ==
  IF sessionId = Null \/ ~watching
    THEN [snapshots |-> snapshots, flushes |-> flushes,
          activeFiles |-> activeFiles]
  ELSE IF Len(activeFiles) = 0
    THEN [snapshots |-> snapshots, flushes |-> flushes,
          activeFiles |-> activeFiles]
  ELSE IF skip > 0 /\ fileErrorAborts
    THEN [snapshots |-> snapshots, flushes |-> flushes,
          activeFiles |-> activeFiles]
  ELSE IF skip >= Len(activeFiles)
    THEN [snapshots |-> snapshots, flushes |-> flushes,
          activeFiles |-> <<>>]
  ELSE [snapshots |-> CaptureFile(snapshots, sessionId,
                                  activeFiles[skip + 1], Len(flushes) + 1),
        flushes |-> Append(flushes,
                      SuspendedCapture(activeFiles, skip + 1, nChanges,
                        [ i \in 1..(skip + 1) |-> sessionId ])),
        activeFiles |-> activeFiles]

\* startWatching(projectPath, sessionId) up to its first await, called by
\* call c once its getSessionById has returned: the coordinator keeps the
\* row, the monitor takes the path and the session id and opens its store
\* connection
startWatching(c) ==
  /\ currentSession' = calls[c].id
  /\ fmProjectPath' = calls[c].path
  /\ fmSessionId' = calls[c].id
  /\ To(c, [calls[c] EXCEPT !.pc = "watch", !.wait = "tick"])
  /\ UNCHANGED <<storeVars, smInitialized, smDbOpen, result, fmIsWatching,
                 fmWatcher, fmLive, fmInterval, fmOrphanTimers, activeFiles,
                 fmAux, gmVars, repoVars, pollVars>>

\* startWatching after its first await.  The store connection or
\* chokidar.watch failed: the catch returns false.  Else the new watcher
\* replaces the one the monitor held, isWatching is set and the initial
\* captureSnapshot runs to its first suspension, or to its end when no row
\* write suspends it.
startWatchingWatch(c, F) ==
  /\ Len(activeFiles) = 0 \/ Len(flushes) < MaxFlushes
  /\ \E ok \in Oks(F, "watch"), skip \in Skips(F, Len(activeFiles)) :
       IF ~ok
         THEN /\ To(c, [calls[c] EXCEPT !.pc = "watched", !.wait = "tick"])
              /\ UNCHANGED <<fmWatcher, fmLive, fmIsWatching, snapshots,
                             flushes, activeFiles>>
         ELSE /\ fmWatcher' = calls[c].id
              /\ fmLive' = fmLive \cup {calls[c].id}
              /\ fmIsWatching' = TRUE
              /\ snapshots' =
                   captureSnapshot(TRUE, fmSessionId, skip).snapshots
              /\ flushes' = captureSnapshot(TRUE, fmSessionId, skip).flushes
              /\ activeFiles' =
                   captureSnapshot(TRUE, fmSessionId, skip).activeFiles
              /\ To(c, [calls[c] EXCEPT
                   !.pc = "arm",
                   !.flush = IF Len(flushes') > Len(flushes)
                               THEN Len(flushes') ELSE 0,
                   !.wait = IF Len(flushes') > Len(flushes)
                              THEN "flush" ELSE "tick"])
  /\ UNCHANGED <<sessions, gitEvents, now, storeWrites, smVars, result,
                 fmSessionId, fmProjectPath, fmInterval, fmOrphanTimers,
                 nChanges, gmVars, repoVars, pollVars>>

\* startWatching after its initial captureSnapshot returned: the snapshot
\* interval is armed, over the handle of an interval that is still armed,
\* and startWatching returns true
startWatchingArm(c) ==
  /\ fmInterval' = TRUE
  /\ fmOrphanTimers' = IF fmInterval THEN fmOrphanTimers + 1
                       ELSE fmOrphanTimers
  /\ To(c, [calls[c] EXCEPT !.pc = "watched", !.wait = "tick",
                            !.flush = 0, !.fileStarted = TRUE])
  /\ UNCHANGED <<storeVars, smVars, result, fmIsWatching, fmSessionId,
                 fmProjectPath, fmWatcher, fmLive, activeFiles, fmAux,
                 gmVars, repoVars, pollVars>>

\* the part of stopWatching from the clearing of the interval on, up to the
\* awaited close of the watcher; without a watcher it runs to its end
stopWatchingTeardown(c) ==
  /\ fmInterval' = FALSE
  /\ IF fmWatcher # Null
       THEN /\ \E w \in CloseWaits :
                 To(c, [Locals(c) EXCEPT !.pc = "close", !.wait = w,
                                        !.closing = fmWatcher])
            /\ UNCHANGED <<activeFiles, fmProjectPath, fmSessionId>>
       ELSE /\ To(c, [Locals(c) EXCEPT !.pc = "unwatched", !.wait = "tick"])
            /\ activeFiles' = <<>>
            /\ fmProjectPath' = NoPath
            /\ fmSessionId' = Null
  /\ UNCHANGED <<fmWatcher, fmLive, fmOrphanTimers>>

\* stopWatching() up to its first await: isWatching is cleared before the
\* final captureSnapshot, which therefore returns at its guard; with no
\* session id stopWatching does not call it and goes on
stopWatching(c) ==
  /\ fmIsWatching' = FALSE
  /\ IF fmSessionId # Null
       THEN /\ To(c, [Locals(c) EXCEPT !.pc = "flushed", !.wait = "tick"])
            /\ UNCHANGED <<fmInterval, activeFiles, fmProjectPath,
                           fmSessionId, fmWatcher, fmLive, fmOrphanTimers>>
       ELSE stopWatchingTeardown(c)
  /\ UNCHANGED <<storeVars, smVars, result, fmAux, gmVars, repoVars,
                 pollVars>>

\* stopWatching after its final captureSnapshot returned
stopWatchingFlushed(c) ==
  /\ stopWatchingTeardown(c)
  /\ UNCHANGED <<storeVars, smVars, result, fmIsWatching, fmAux, gmVars,
                 repoVars, pollVars>>

\* a stopWatching that lets the rejection of watcher.close() leave it
stopWatchingThrowsOnFailure(closeOk) == ~closeOk

\* stopWatching() throws: never, its body is inside try/catch and the catch
\* returns false
stopWatchingThrows(closeOk) == FALSE

\* stopWatching after watcher.close() settled.  Resolved: the watcher that
\* was closed is gone, and the monitor's watcher, its pending mapping, its
\* path and its session id are cleared.  Rejected: the catch returns false
\* and they are kept.  A stopWatching that threw would take its caller past
\* stopMonitoring.
stopWatchingClosed(c, F) ==
  /\ \E closeOk \in Oks(F, "close") :
       /\ IF closeOk
            THEN /\ fmLive' = fmLive \ {calls[c].closing}
                 /\ fmWatcher' = Null
                 /\ activeFiles' = <<>>
                 /\ fmProjectPath' = NoPath
                 /\ fmSessionId' = Null
            ELSE UNCHANGED <<fmLive, fmWatcher, activeFiles, fmProjectPath,
                             fmSessionId>>
       /\ To(c, [calls[c] EXCEPT
            !.pc = IF stopWatchingThrows(closeOk) THEN "unmonitored"
                   ELSE "unwatched",
            !.wait = "tick", !.closing = Null])
  /\ UNCHANGED <<storeVars, smVars, result, fmIsWatching, fmInterval,
                 fmOrphanTimers, fmAux, gmVars, repoVars, pollVars>>

\* ------------------------------------------------------------- git monitor
\* git.status() succeeds: the path is a repository
isGitRepository(projectPath) == projectPath \in Repositories

\* a read issued now on this.git succeeds: there is a handle and its path
\* is a repository
HandleReads == gmGit /\ isGitRepository(gmProjectPath)

\* the awaits at which a call waits for getCurrentBranch, and those at which
\* it waits for getRecentCommits
BranchReads == {"gm_branch", "branch", "status_branch"}

LogReads == {"gm_log", "log"}

\* what a read issued now on this.git waits for: the git process, which has
\* not read the repository yet, or, with this.git null, the TypeError that
\* is thrown and caught at once.  The files of a commit do not change: when
\* the process reads them makes no difference.
ReadWait(pc) ==
  IF ~gmGit THEN "tick" ELSE IF pc = "show" THEN "io" ELSE "git"

\* what the git process of the read awaited at pc reads from the repository
\* now: status.current, the hashes of the newest count commits, newest
\* first, or the names of the status lists that are not empty
Seen(pc) ==
  IF pc \in BranchReads THEN [NotSeen EXCEPT !.branch = repoBranch]
  ELSE IF pc = "gm_log" THEN [NotSeen EXCEPT !.log = Take(repoLog, 1)]
  ELSE IF pc = "log"
    THEN [NotSeen EXCEPT !.log = Take(repoLog, RecentCount)]
  ELSE IF pc = "status" THEN [NotSeen EXCEPT !.tree = repoTree]
  ELSE NotSeen

\* the git process of the read call c waits for reads the repository; the
\* read is not yet delivered
gitReads(c) ==
  /\ To(c, [calls[c] EXCEPT
       !.wait = "io",
       !.seen = IF calls[c].read THEN Seen(calls[c].pc) ELSE NotSeen])
  /\ UNCHANGED <<storeVars, smVars, result, fmVars, fmAux, gmVars, repoVars,
                 pollVars>>

\* an async function that awaits one read of the repository resumes when
\* the read is delivered and returns, from its try or from its catch; the
\* function that awaits it resumes in a later job
ReadReturns(c, ok) ==
  /\ To(c, [calls[c] EXCEPT
       !.wait = "tick",
       !.read = @ /\ ok,
       !.seen = IF calls[c].read /\ ok THEN @ ELSE NotSeen])
  /\ UNCHANGED <<storeVars, smVars, result, fmVars, fmAux, gmVars, repoVars,
                 pollVars>>

\* getCurrentBranch() after its status read (230-235): status.current, or
\* 'unknown' from the catch
getCurrentBranch(c, F) == \E ok \in Oks(F, "branch") : ReadReturns(c, ok)

\* getRecentCommits(count) after its log read (240-251): the hashes newest
\* first, or [] from the catch
getRecentCommits(c, F) == \E ok \in Oks(F, "log") : ReadReturns(c, ok)

\* getCommitFiles(commitHash) after its show read (195-200)
getCommitFilesShown(c, F) == \E ok \in Oks(F, "diff") : ReadReturns(c, ok)

\* captureGitEvent after the awaited insertGitEvent settled (218-225): it
\* returns the id, or null from its catch; the function that awaits it
\* resumes in a later job
captureGitEventWritten(c) ==
  /\ To(c, [calls[c] EXCEPT !.wait = "tick"])
  /\ UNCHANGED <<storeVars, smVars, result, fmVars, fmAux, gmVars, repoVars,
                 pollVars>>

\* captureGitEvent is suspended on a row write: the monitor holds a session
\* id and the store has the method.  Without a session id it returns null
\* at its guard (203-206); with the store class as it is the call of
\* insertGitEvent throws a TypeError, caught at once (222), and it returns
\* null.
EventWaits == gmSessionId # Null /\ storeWrites

\* captureGitEvent(eventType, data): the git_events table after it
captureGitEvent(tbl, dbOpen, sessionId, eventType, data) ==
  IF sessionId = Null \/ ~storeWrites THEN tbl
  ELSE insertGitEvent(tbl, dbOpen, sessionId,
         [eventType |-> eventType, branchName |-> data.branchName,
          commitHash |-> data.commitHash,
          filesChanged |-> data.filesChanged])

\* the data object of a git event
EventData(branchName, commitHash, filesChanged) ==
  [branchName |-> branchName, commitHash |-> commitHash,
   filesChanged |-> filesChanged]

\* the rows tbl2 holds beyond those of tbl
Added(tbl, tbl2) == SubSeq(tbl2, Len(tbl) + 1, Len(tbl2))

\* the baseline without the assignment from the newest commit
InitialHashUnset(commits) == lastCommitHash

\* the baseline hash captureInitialState records
InitialHash(commits) ==
  IF Len(commits) > 0 THEN commits[1] ELSE lastCommitHash

\* startMonitoring(projectPath, sessionId) up to its first await, called by
\* call c once its startWatching has returned: the monitor takes the path,
\* the session id and a handle on the path, and isGitRepository reads the
\* status
startMonitoring(c) ==
  /\ gmProjectPath' = calls[c].path
  /\ gmSessionId' = calls[c].id
  /\ gmGit' = TRUE
  /\ To(c, [calls[c] EXCEPT !.pc = "gm_status", !.wait = "io"])
  /\ UNCHANGED <<storeVars, smVars, result, fmVars, fmAux, gmIsMonitoring,
                 gmInterval, gmOrphanTimers, gmDbOpen, lastCommitHash,
                 lastBranch, repoVars, pollVars>>

\* isGitRepository() after its status read (88-92): it returns true, or
\* false from its catch when the path is no repository; startMonitoring
\* resumes in a later job
isGitRepositoryStatus(c) ==
  /\ To(c, [calls[c] EXCEPT !.pc = "gm_repo", !.wait = "tick",
                            !.read = isGitRepository(calls[c].path)])
  /\ UNCHANGED <<storeVars, smVars, result, fmVars, fmAux, gmVars, repoVars,
                 pollVars>>

\* startMonitoring after isGitRepository returned (27-33): no repository,
\* it returns false; else it opens its store connection and awaits
\* initialize(), whose promise is rejected when the connection fails
startMonitoringStatus(c, F) ==
  /\ IF ~calls[c].read
       THEN /\ UNCHANGED gmDbOpen
            /\ To(c, [calls[c] EXCEPT !.pc = "monitored", !.wait = "tick"])
       ELSE \E ok \in Oks(F, "gmInit") :
              IF ok
                THEN /\ gmDbOpen' = TRUE
                     /\ To(c, [calls[c] EXCEPT !.pc = "gm_init",
                                               !.wait = "tick"])
                ELSE /\ UNCHANGED gmDbOpen
                     /\ To(c, [calls[c] EXCEPT !.pc = "gm_failed",
                                               !.wait = "tick"])
  /\ UNCHANGED <<storeVars, smVars, result, fmVars, fmAux, gmIsMonitoring,
                 gmGit, gmSessionId, gmProjectPath, gmInterval,
                 gmOrphanTimers, lastCommitHash, lastBranch, repoVars,
                 pollVars>>

\* startMonitoring after the rejected await of initialize() (33, 49-52):
\* its catch returns false
startMonitoringCatch(c) ==
  /\ To(c, [calls[c] EXCEPT !.pc = "monitored", !.wait = "tick"])
  /\ UNCHANGED <<storeVars, smVars, result, fmVars, fmAux, gmVars, repoVars,
                 pollVars>>

\* the locals of a call that issues a read of the repository and is
\* suspended at pc
Reading(rec, pc) ==
  [rec EXCEPT !.pc = pc, !.wait = ReadWait(pc), !.read = HandleReads,
              !.seen = NotSeen]

\* captureInitialState() up to its first await: the branch read
captureInitialState(c) ==
  /\ To(c, Reading(calls[c], "gm_branch"))
  /\ UNCHANGED <<storeVars, smVars, result, fmVars, fmAux, gmVars, repoVars,
                 pollVars>>

\* captureInitialState after getCurrentBranch returned (97-98): the log
\* read
captureInitialBranch(c) ==
  /\ To(c, Reading([calls[c] EXCEPT !.branch = calls[c].seen.branch],
                   "gm_log"))
  /\ UNCHANGED <<storeVars, smVars, result, fmVars, fmAux, gmVars, repoVars,
                 pollVars>>

\* captureInitialState after getRecentCommits returned (98-110): the
\* baseline is assigned and the session_start event is written, for the
\* session id the monitor holds by now
captureInitialLog(c, F) ==
  /\ \E writeOk \in Oks(F, "write") :
       /\ lastCommitHash' = InitialHash(calls[c].seen.log)
       /\ gitEvents' =
            captureGitEvent(gitEvents, gmDbOpen /\ writeOk, gmSessionId,
              "session_start",
              EventData(calls[c].branch, lastCommitHash', {}))
  /\ lastBranch' = calls[c].branch
  /\ To(c, [calls[c] EXCEPT
       !.pc = "gm_event",
       !.wait = IF EventWaits THEN "io" ELSE "tick"])
  /\ UNCHANGED <<sessions, snapshots, now, storeWrites, smVars, result, fmVars,
                 fmAux,
                 gmIsMonitoring, gmGit, gmSessionId, gmProjectPath,
                 gmInterval, gmOrphanTimers, gmDbOpen, repoVars, pollVars>>

\* captureInitialState after captureGitEvent returned (106-115): it
\* returns; startMonitoring resumes in a later job
captureInitialEvent(c) ==
  /\ To(c, [calls[c] EXCEPT !.pc = "gm_captured", !.wait = "tick"])
  /\ UNCHANGED <<storeVars, smVars, result, fmVars, fmAux, gmVars, repoVars,
                 pollVars>>

\* startMonitoring after captureInitialState returned (36-47):
\* isMonitoring is set, the poll interval is armed, over the handle of an
\* interval that is still armed, and startMonitoring returns true
startMonitoringArm(c) ==
  /\ gmIsMonitoring' = TRUE
  /\ gmInterval' = TRUE
  /\ gmOrphanTimers' = IF gmInterval THEN gmOrphanTimers + 1
                       ELSE gmOrphanTimers
  /\ To(c, [calls[c] EXCEPT !.pc = "monitored", !.wait = "tick",
                            !.gitStarted = TRUE])
  /\ UNCHANGED <<storeVars, smVars, result, fmVars, fmAux, gmGit,
                 gmSessionId, gmProjectPath, gmDbOpen, lastCommitHash,
                 lastBranch, repoVars, pollVars>>

\* the end of stopMonitoring: the handle, the path, the session id and the
\* baseline are cleared
stopMonitoringClear ==
  /\ gmGit' = FALSE
  /\ gmProjectPath' = NoPath
  /\ gmSessionId' = Null
  /\ lastCommitHash' = Null
  /\ lastBranch' = NoBranch

\* stopMonitoring() up to its first await: isMonitoring and the interval are
\* cleared, and with a handle and a session id captureGitEvent is awaited
\* for the session_end event (the write succeeding or failing, or the call
\* returning null from its catch with the store class as it is); without
\* them stopMonitoring runs to its end
stopMonitoring(c, F) ==
  /\ gmIsMonitoring' = FALSE
  /\ gmInterval' = FALSE
  /\ IF gmGit /\ gmSessionId # Null
       THEN /\ \E writeOk \in Oks(F, "write") :
                 gitEvents' =
                   captureGitEvent(gitEvents, gmDbOpen /\ writeOk,
                     gmSessionId, "session_end",
                     EventData(NoBranch, Null, {}))
            /\ To(c, [calls[c] EXCEPT
                        !.pc = "gm_end",
                        !.wait = IF EventWaits THEN "io" ELSE "tick"])
            /\ UNCHANGED <<gmGit, gmProjectPath, gmSessionId,
                           lastCommitHash, lastBranch>>
       ELSE /\ stopMonitoringClear
            /\ To(c, [calls[c] EXCEPT !.pc = "unmonitored",
                                      !.wait = "tick"])
            /\ UNCHANGED gitEvents
  /\ UNCHANGED <<sessions, snapshots, now, storeWrites, smVars, result, fmVars,
                 fmAux,
                 gmOrphanTimers, gmDbOpen, repoVars, pollVars>>

\* stopMonitoring after captureGitEvent returned (71-78)
stopMonitoringEnd(c) ==
  /\ stopMonitoringClear
  /\ To(c, [calls[c] EXCEPT !.pc = "unmonitored", !.wait = "tick"])
  /\ UNCHANGED <<storeVars, smVars, result, fmVars, fmAux, gmIsMonitoring,
                 gmInterval, gmOrphanTimers, gmDbOpen, repoVars, pollVars>>

\* the new commits when a last-known hash that is not among the polled
\* commits stops the poll: none is taken as new
NewCommitsOnlyIfFound(recentCommits, lastHash) ==
  IF \E i \in 1..Len(recentCommits) : recentCommits[i] = lastHash
    THEN SubSeq(recentCommits, 1,
           (CHOOSE i \in 1..Len(recentCommits) :
              /\ recentCommits[i] = lastHash
              /\ \A j \in 1..(i - 1) : recentCommits[j] # lastHash) - 1)
    ELSE <<>>

\* the commits of recentCommits before the first occurrence of lastHash
\* (all of them when it does not occur), newest first
NewCommits(recentCommits, lastHash) ==
  IF \E i \in 1..Len(recentCommits) : recentCommits[i] = lastHash
    THEN SubSeq(recentCommits, 1,
           (CHOOSE i \in 1..Len(recentCommits) :
              /\ recentCommits[i] = lastHash
              /\ \A j \in 1..(i - 1) : recentCommits[j] # lastHash) - 1)
    ELSE recentCommits

\* the new commits without the reverse: newest first
CommitsNewestFirst(recentCommits, lastHash) ==
  IF Len(recentCommits) > 0 /\ recentCommits[1] # lastHash
    THEN NewCommits(recentCommits, lastHash)
    ELSE <<>>

\* the commits pollGitChanges records, oldest first
CommitsToRecord(recentCommits, lastHash) ==
  IF Len(recentCommits) > 0 /\ recentCommits[1] # lastHash
    THEN Reverse(NewCommits(recentCommits, lastHash))
    ELSE <<>>

\* latestCommit.hash when it differs from the last-known hash, else Null
LatestNew(recentCommits, lastHash) ==
  IF Len(recentCommits) > 0 /\ recentCommits[1] # lastHash
    THEN recentCommits[1]
    ELSE Null

\* git.show([commitHash, '--name-only', ...]): the files of the commit, the
\* empty list when the read fails.  Every commit is taken to change a.js.
getCommitFiles(commitHash, diffOk) == IF diffOk THEN {"a.js"} ELSE {}

\* status.staged, status.modified or status.not_added is non-empty
StatusChanged(tree) ==
  "staged" \in tree \/ "modified" \in tree \/ "untracked" \in tree

\* the branch step without the comparison: every poll records the branch
BranchChangedEveryPoll(currentBranch, last) == TRUE

\* currentBranch !== this.lastBranch
BranchChanged(currentBranch, last) == currentBranch # last

\* a poll whose failures leave it: the promise of pollGitChanges rejects
pollRejectsOnFailure(failed) == failed

\* the promise of pollGitChanges rejects: never, every read and write
\* catches its own error and the body is inside try/catch
pollRejects(failed) == FALSE

\* the record of a poll cycle that has returned
Returned(rec) ==
  [rec EXCEPT !.pc = "returned", !.wait = "none", !.read = FALSE,
              !.seen = NotSeen, !.rejected = pollRejects(rec.failed)]

\* one step of the poll cycle c: the git_events table, the last-known
\* branch and hash after it, and the cycle suspended with the locals rec or
\* returned
PollUpdate(c, events, branch, hash, rec, returns) ==
  /\ gitEvents' = events
  /\ lastBranch' = branch
  /\ lastCommitHash' = hash
  /\ IF returns
       THEN Done(c) /\ lastPoll' = Returned(rec)
       ELSE To(c, rec) /\ UNCHANGED lastPoll
  /\ UNCHANGED <<sessions, snapshots, now, storeWrites, smVars, result, fmVars,
                 fmAux,
                 gmIsMonitoring, gmGit, gmSessionId, gmProjectPath,
                 gmInterval, gmOrphanTimers, gmDbOpen, repoVars, polls>>

\* the locals of a cycle whose captureGitEvent returned without a write: at
\* its guard, or from its catch, which is a failure of the cycle
Unwritten(rec) == [rec EXCEPT !.failed = @ \/ gmSessionId # Null]

\* the locals of a cycle that called captureGitEvent, which left the table
\* tbl, and is suspended at pc until captureGitEvent has returned: after
\* the write of the rows of tbl beyond gitEvents, or at once when it does
\* not write
Writing(rec, pc, tbl) ==
  IF EventWaits
    THEN [rec EXCEPT !.pc = pc, !.wait = "io",
                     !.wrote = @ \o Added(gitEvents, tbl),
                     !.failed = @ \/ tbl = gitEvents]
    ELSE [Unwritten(rec) EXCEPT !.pc = pc, !.wait = "tick"]

\* pollGitChanges after getCurrentBranch returned (124-129): a branch that
\* differs from the last-known one is written as a branch_change event, and
\* the cycle waits for captureGitEvent.  Else the log read is issued.
pollBranch(c, F) ==
  \E writeOk \in Oks(F, "write") :
    LET b == calls[c].seen.branch
        rec == [calls[c] EXCEPT !.branch = b, !.failed = @ \/ ~calls[c].read]
        tbl == captureGitEvent(gitEvents, gmDbOpen /\ writeOk, gmSessionId,
                 "branch_change", EventData(b, Null, {}))
    IN  IF ~BranchChanged(b, lastBranch)
          THEN PollUpdate(c, gitEvents, lastBranch, lastCommitHash,
                          Reading(rec, "log"), FALSE)
          ELSE PollUpdate(c, IF EventWaits THEN tbl ELSE gitEvents,
                          lastBranch, lastCommitHash,
                          Writing(rec, "branch_written", tbl), FALSE)

\* pollGitChanges after captureGitEvent returned for its branch_change
\* event (130-134): the branch is assigned and the log read is issued
pollBranchWritten(c) ==
  PollUpdate(c, gitEvents, calls[c].branch, lastCommitHash,
             Reading(calls[c], "log"), FALSE)

\* the cycle goes on to checkStatusChanges: the status read is issued;
\* with this.git null the TypeError is caught there and the cycle returns
\* a job later
ToStatus(rec) == Reading(rec, "status")

\* pollGitChanges after getRecentCommits returned (134-154): the commits to
\* record are taken against the last-known hash of this moment, and the
\* files of the first of them are read; with none to record the newest hash
\* is assigned when it differs, and the status is read
pollLog(c) ==
  LET recent == calls[c].seen.log
      todo == CommitsToRecord(recent, lastCommitHash)
      latest == LatestNew(recent, lastCommitHash)
      rec == [calls[c] EXCEPT !.recent = recent, !.todo = todo,
                !.latest = latest, !.base = lastCommitHash,
                !.failed = @ \/ ~calls[c].read]
  IN  IF todo # <<>>
        THEN PollUpdate(c, gitEvents, lastBranch, lastCommitHash,
                        Reading(rec, "show"), FALSE)
        ELSE PollUpdate(c, gitEvents, lastBranch,
                        IF latest # Null THEN latest ELSE lastCommitHash,
                        ToStatus(rec), FALSE)

\* the loop over the new commits after the event of one of them (149-163):
\* the files of the next one are read, or, past the last one, the newest
\* hash is assigned and the status is read
pollNextCommit(c, rec, events) ==
  IF Len(rec.todo) > 1
    THEN PollUpdate(c, events, lastBranch, lastCommitHash,
                    Reading([rec EXCEPT !.todo = Tail(@)], "show"), FALSE)
    ELSE PollUpdate(c, events, lastBranch, rec.latest,
                    ToStatus([rec EXCEPT !.todo = <<>>]), FALSE)

\* pollGitChanges after getCommitFiles returned (150-155): the commit event
\* is written and the cycle waits for captureGitEvent
pollShow(c, F) ==
  \E writeOk \in Oks(F, "write") :
    LET rec == [calls[c] EXCEPT !.failed = @ \/ ~calls[c].read]
        tbl == captureGitEvent(gitEvents, gmDbOpen /\ writeOk, gmSessionId,
                 "commit",
                 EventData(calls[c].branch, Head(calls[c].todo),
                   getCommitFiles(Head(calls[c].todo), calls[c].read)))
    IN  PollUpdate(c, IF EventWaits THEN tbl ELSE gitEvents, lastBranch,
                   lastCommitHash, Writing(rec, "commit_written", tbl),
                   FALSE)

\* pollGitChanges after captureGitEvent returned for a commit event
pollCommitWritten(c) == pollNextCommit(c, calls[c], gitEvents)

\* checkStatusChanges after its status read (172-190), or after the
\* TypeError of a null this.git: with staged, modified or untracked files
\* the branch is read again for the event; else, and when the read failed,
\* it returns, and pollGitChanges resumes in a later job, or in this one
\* when no read was awaited
pollStatus(c, F) ==
  \E ok \in Oks(F, "status") :
    LET good == calls[c].read /\ ok
        rec == [calls[c] EXCEPT
                  !.tree = IF good THEN calls[c].seen.tree ELSE {},
                  !.read = good,
                  !.failed = @ \/ ~good]
    IN  IF good /\ StatusChanged(rec.tree)
          THEN PollUpdate(c, gitEvents, lastBranch, lastCommitHash,
                          Reading(rec, "status_branch"), FALSE)
        ELSE IF calls[c].wait = "tick"
          THEN PollUpdate(c, gitEvents, lastBranch, lastCommitHash, rec,
                          TRUE)
        ELSE PollUpdate(c, gitEvents, lastBranch, lastCommitHash,
                        [rec EXCEPT !.pc = "status_done", !.wait = "tick"],
                        FALSE)

\* checkStatusChanges after getCurrentBranch returned (182-186): the
\* status_change event is written and the cycle waits for captureGitEvent
pollStatusBranch(c, F) ==
  \E writeOk \in Oks(F, "write") :
    LET rec == [calls[c] EXCEPT !.failed = @ \/ ~calls[c].read]
        tbl == captureGitEvent(gitEvents, gmDbOpen /\ writeOk, gmSessionId,
                 "status_change",
                 EventData(calls[c].seen.branch, Null, calls[c].tree))
    IN  PollUpdate(c, IF EventWaits THEN tbl ELSE gitEvents, lastBranch,
                   lastCommitHash, Writing(rec, "status_written", tbl),
                   FALSE)

\* checkStatusChanges after captureGitEvent returned for its status_change
\* event (187-191): it returns; pollGitChanges resumes in a later job
pollStatusWritten(c) ==
  PollUpdate(c, gitEvents, lastBranch, lastCommitHash,
             [calls[c] EXCEPT !.pc = "status_done", !.wait = "tick"], FALSE)

\* pollGitChanges after checkStatusChanges returned (163-168): it returns
pollStatusDone(c) ==
  PollUpdate(c, gitEvents, lastBranch, lastCommitHash, calls[c], TRUE)

\* pollGitChanges() up to its first await: past the guard the branch read
\* is issued
pollGitChanges ==
  IF ~gmIsMonitoring \/ ~gmGit
    THEN /\ UNCHANGED calls
         /\ lastPoll' = Returned(NewCall("poll", "guard", "none"))
    ELSE /\ calls' = Append(calls,
              [Reading(NewCall("poll", "branch", "git"), "branch")
                 EXCEPT !.sid = gmSessionId])
         /\ UNCHANGED lastPoll

\* --------------------------------------------------------- session manager
\* what a call of the coordinator returns or throws; the fields a call does
\* not set hold their defaults
Outcome(op, threw, success, sessionId, error, errorId, monitoring) ==
  [op |-> op, threw |-> threw, success |-> success, sessionId |-> sessionId,
   error |-> error, errorId |-> errorId, monitoring |-> monitoring,
   warning |-> "", active |-> FALSE, projectPath |-> NoPath,
   stats |-> [snapshots |-> 0, gitEvents |-> 0], branch |-> NoBranch]

\* call c returns or throws
Return(c, outcome) == result' = outcome /\ Done(c)

\* a call returns or throws and changes nothing else
ReturnOnly(c, outcome) ==
  /\ Return(c, outcome)
  /\ UNCHANGED <<storeVars, smVars, fmVars, fmAux, gmVars, repoVars,
                 pollVars>>

\* call c waits for a store call it made, with the locals rec
Await(c, rec, pc) ==
  /\ To(c, [rec EXCEPT !.pc = pc, !.wait = "tick"])
  /\ UNCHANGED <<storeVars, smVars, result, fmVars, fmAux, gmVars, repoVars,
                 pollVars>>

\* the error an awaited store call left in call c is thrown, wrapped by the
\* catch of the coordinator's method
Rethrow(c) ==
  ReturnOnly(c, Outcome(calls[c].op, TRUE, FALSE, Null, calls[c].err, Null,
                        {}))

\* a call of a method of the coordinator, up to the await of its
\* initialize(): the first one opens the store connection; after close() the
\* flag stays set and the connection stays closed
initialize(op, path) ==
  /\ smDbOpen' = IF smInitialized THEN smDbOpen ELSE TRUE
  /\ calls' = Append(calls,
       [NewCall(op, IF smInitialized THEN "ready" ELSE "init", "tick")
          EXCEPT !.path = path])
  /\ UNCHANGED <<storeVars, smInitialized, currentSession, result, fmVars,
                 fmAux, gmVars, repoVars, pollVars>>

\* initialize() after the awaited open of the store: the flag is set
initialized(c) ==
  /\ smInitialized' = TRUE
  /\ To(c, [calls[c] EXCEPT !.pc = "ready", !.wait = "tick"])
  /\ UNCHANGED <<storeVars, smDbOpen, currentSession, result, fmVars, fmAux,
                 gmVars, repoVars, pollVars>>

\* the locals of a call that has called getActiveSession(): the id of the
\* row found, or the error of a store that is closed
Queried(rec) ==
  IF ~smDbOpen THEN [rec EXCEPT !.err = "Failed to get active session"]
  ELSE [rec EXCEPT !.active = getActiveSession.id]

\* what the result's monitoring list holds
MonitoringList(fileStarted, gitStarted) ==
  IF ~fileStarted /\ ~gitStarted THEN {"basic session tracking"}
  ELSE (IF fileStarted THEN {"file monitoring"} ELSE {})
       \cup (IF gitStarted THEN {"git monitoring"} ELSE {})

\* throw new Error(`Session already active (ID: ${activeSession.id}). ...`)
ConflictError(activeSession) ==
  Outcome("startSession", TRUE, FALSE, Null, "Session already active",
          activeSession.id, {})

\* return { success: false, message: 'No active session to stop' }
NothingToStop ==
  Outcome("stopSession", FALSE, FALSE, Null, "No active session to stop",
          Null, {})

\* startWatching and startMonitoring catch every error of their bodies and
\* return false: no error of a monitor reaches startSession
monitorError == FALSE

\* a start that fails when a monitor did not attach
StartedResultStrict(sessionId, fileStarted, gitStarted) ==
  IF fileStarted /\ gitStarted
    THEN Outcome("startSession", FALSE, TRUE, sessionId, "", Null,
                 MonitoringList(fileStarted, gitStarted))
    ELSE Outcome("startSession", TRUE, FALSE, Null,
                 "Failed to start session", Null, {})

\* the payload startSession returns after both monitor calls returned
StartedResult(sessionId, fileStarted, gitStarted) ==
  Outcome("startSession", FALSE, TRUE, sessionId, "", Null,
          MonitoringList(fileStarted, gitStarted))

\* the payload startSession returns from its catch (monitorError) branch
DegradedResult(sessionId) ==
  [Outcome("startSession", FALSE, TRUE, sessionId, "", Null, {})
     EXCEPT !.warning = "Some monitoring services may not be active"]

\* startSession after initialize (264-271): a path that does not exist is
\* thrown; else getActiveSession is called
startSessionReady(c) ==
  IF ~ExistsDir(calls[c].path)
    THEN ReturnOnly(c, Outcome("startSession", TRUE, FALSE, Null,
                               "Project path does not exist", Null, {}))
    ELSE Await(c, Queried(calls[c]), "checked")

\* startSession after getActiveSession (272-277): an active row is the
\* conflict error; else createSession is called
startSessionChecked(c) ==
  IF calls[c].err # "" THEN Rethrow(c)
  ELSE IF calls[c].active # Null
    THEN ReturnOnly(c, ConflictError(getSessionById(sessions,
                                                    calls[c].active)))
  ELSE IF ~smDbOpen
    THEN Await(c, [calls[c] EXCEPT !.err = "Failed to create session"],
               "created")
  ELSE /\ \E time \in ClockReadings :
            /\ sessions' = createSession(calls[c].path, time)
            /\ now' = time
       /\ To(c, [calls[c] EXCEPT !.pc = "created", !.wait = "tick",
                                 !.id = Len(sessions) + 1])
       /\ UNCHANGED <<snapshots, gitEvents, storeWrites, smVars, result, fmVars,
                      fmAux,
                      gmVars, repoVars, pollVars>>

\* startSession after createSession (277-278): getSessionById is called
startSessionCreated(c) ==
  IF calls[c].err # "" THEN Rethrow(c)
  ELSE IF ~smDbOpen
    THEN Await(c, [calls[c] EXCEPT !.err = "Failed to get session"],
               "fetched")
  ELSE Await(c, calls[c], "fetched")

\* startSession after getSessionById (278-283): the row is kept and
\* startWatching is called
startSessionFetched(c) ==
  IF calls[c].err # "" THEN Rethrow(c) ELSE startWatching(c)

\* startSession after startMonitoring returned (288-312): the payload reads
\* the start time of the row the coordinator keeps; when a stopSession has
\* cleared it, the TypeError leaves both catches
startSessionReturn(c) ==
  IF currentSession = Null
    THEN ReturnOnly(c, Outcome("startSession", TRUE, FALSE, Null,
                               "Failed to start session", Null, {}))
  ELSE IF monitorError
    THEN ReturnOnly(c, DegradedResult(calls[c].id))
  ELSE ReturnOnly(c, StartedResult(calls[c].id, calls[c].fileStarted,
                                   calls[c].gitStarted))

\* stopSession, getSessionStatus and isSessionActive after initialize:
\* getActiveSession is called
getActive(c) ==
  Await(c, [Queried(calls[c]) EXCEPT
              !.id = IF smDbOpen THEN getActiveSession.id ELSE Null],
        "found")

\* a stopSession that goes on to close the row and leaves the monitors
\* running
stopSessionFoundRowOnly(c) ==
  IF calls[c].err # "" THEN Rethrow(c)
  ELSE IF calls[c].active = Null THEN ReturnOnly(c, NothingToStop)
  ELSE Await(c, calls[c], "unmonitored")

\* stopSession after getActiveSession (321-331): with no active row it
\* returns; else stopWatching is called
stopSessionFound(c) ==
  IF calls[c].err # "" THEN Rethrow(c)
  ELSE IF calls[c].active = Null THEN ReturnOnly(c, NothingToStop)
  ELSE stopWatching(c)

\* stopSession after stopMonitoring returned (339): endSession is called
stopSessionEnd(c) ==
  IF ~smDbOpen
    THEN Await(c, [calls[c] EXCEPT !.err = "Failed to end session"],
               "ended")
  ELSE /\ \E time \in ClockReadings :
            /\ sessions' = endSession(calls[c].id, time)
            /\ now' = time
       /\ To(c, [calls[c] EXCEPT !.pc = "ended", !.wait = "tick",
                   !.stopped = endSessionChanged(calls[c].id)])
       /\ UNCHANGED <<snapshots, gitEvents, storeWrites, smVars, result, fmVars,
                      fmAux,
                      gmVars, repoVars, pollVars>>

\* stopSession after endSession (340-352)
stopSessionEnded(c) ==
  IF calls[c].err # "" THEN Rethrow(c)
  ELSE IF calls[c].stopped
    THEN /\ currentSession' = Null
         /\ Return(c, Outcome("stopSession", FALSE, TRUE, calls[c].id, "",
                              Null, {}))
         /\ UNCHANGED <<storeVars, smInitialized, smDbOpen, fmVars, fmAux,
                        gmVars, repoVars, pollVars>>
  ELSE ReturnOnly(c, Outcome("stopSession", FALSE, FALSE, Null,
                             "Failed to stop session", Null, {}))

\* the monitors that report themselves active in getMonitoringStatus
ActiveMonitors ==
  (IF fmIsWatching THEN {"file monitoring"} ELSE {})
  \cup (IF gmIsMonitoring THEN {"git monitoring"} ELSE {})

\* getSessionStatus after getActiveSession (363-376): with no active row it
\* returns; else getSessionStats is called
getSessionStatusFound(c) ==
  IF calls[c].err # "" THEN Rethrow(c)
  ELSE IF calls[c].active = Null
    THEN ReturnOnly(c, Outcome("getSessionStatus", FALSE, FALSE, Null,
                               "No active tracking session", Null, {}))
  ELSE IF ~smDbOpen
    THEN Await(c, [calls[c] EXCEPT !.err = "Failed to get session stats"],
               "counted")
  ELSE Await(c, [calls[c] EXCEPT !.stats = getSessionStats(calls[c].id)],
             "counted")

\* getSessionStatus after getSessionStats (379-403): the status of the
\* monitors is read and the payload returned; the row is the one
\* getActiveSession gave
getSessionStatusCounted(c) ==
  IF calls[c].err # "" THEN Rethrow(c)
  ELSE ReturnOnly(c,
         [Outcome("getSessionStatus", FALSE, FALSE, calls[c].id, "", Null,
                  ActiveMonitors)
            EXCEPT !.active = TRUE,
                   !.projectPath =
                     getSessionById(sessions, calls[c].id).project_path,
                   !.stats = calls[c].stats,
                   !.branch = IF lastBranch = NoBranch THEN UnknownBranch
                              ELSE lastBranch])

\* isSessionActive after getActiveSession: activeSession !== undefined
isSessionActiveFound(c) ==
  IF calls[c].err # "" THEN Rethrow(c)
  ELSE ReturnOnly(c,
         [Outcome("isSessionActive", FALSE, FALSE, Null, "", Null, {})
            EXCEPT !.active = (calls[c].active # Null)])

\* the end of cleanup() with a close() that fails on a connection that is
\* not open
cleanupCloseOnce(c) ==
  /\ smDbOpen' = FALSE
  /\ Return(c, IF smDbOpen
                 THEN Outcome("cleanup", FALSE, TRUE, Null, "", Null, {})
                 ELSE Outcome("cleanup", TRUE, FALSE, Null,
                              "The database connection is not open", Null,
                              {}))
  /\ UNCHANGED <<storeVars, smInitialized, currentSession, fmVars, fmAux,
                 gmVars, repoVars, pollVars>>

\* cleanup() after stopMonitoring returned (450-452): the store connection
\* is closed
cleanupClose(c) ==
  /\ smDbOpen' = FALSE
  /\ Return(c, Outcome("cleanup", FALSE, TRUE, Null, "", Null, {}))
  /\ UNCHANGED <<storeVars, smInitialized, currentSession, fmVars, fmAux,
                 gmVars, repoVars, pollVars>>

\* cleanup() up to its first await: stopWatching is called
cleanup == stopWatching(0)

\* ---------------------------------------------------------------- one step
\* the awaits at which a call waits for captureGitEvent
EventWrites == {"gm_event", "gm_end", "branch_written", "commit_written",
                "status_written"}

\* call c awaits a function of the git monitor that is itself suspended, at
\* its read of the repository or at its write of an event
Nested(c) ==
  \/ calls[c].wait = "git"
  \/ /\ calls[c].wait = "io"
     /\ calls[c].pc \in BranchReads \cup LogReads \cup {"show"}
                         \cup EventWrites

\* the git process of the read of call c reads, or the function call c
\* awaits resumes after its read or write and returns
NestedStep(c, F) ==
  IF calls[c].wait = "git" THEN gitReads(c)
  ELSE IF calls[c].pc \in BranchReads THEN getCurrentBranch(c, F)
  ELSE IF calls[c].pc \in LogReads THEN getRecentCommits(c, F)
  ELSE IF calls[c].pc = "show" THEN getCommitFilesShown(c, F)
  ELSE captureGitEventWritten(c)

\* one job of call c: the function it awaits runs, or call c resumes and
\* runs to its next await or to its return; the operations of F succeed or
\* fail
Step(c, F) ==
  IF Nested(c) THEN NestedStep(c, F) ELSE
  CASE calls[c].pc = "init" -> initialized(c)
    [] calls[c].pc = "ready" ->
         IF calls[c].op = "startSession" THEN startSessionReady(c)
         ELSE getActive(c)
    [] calls[c].pc = "checked" -> startSessionChecked(c)
    [] calls[c].pc = "created" -> startSessionCreated(c)
    [] calls[c].pc = "fetched" -> startSessionFetched(c)
    [] calls[c].pc = "watch" -> startWatchingWatch(c, F)
    [] calls[c].pc = "arm" -> startWatchingArm(c)
    [] calls[c].pc = "watched" -> startMonitoring(c)
    [] calls[c].pc = "gm_status" -> isGitRepositoryStatus(c)
    [] calls[c].pc = "gm_repo" -> startMonitoringStatus(c, F)
    [] calls[c].pc = "gm_failed" -> startMonitoringCatch(c)
    [] calls[c].pc = "gm_init" -> captureInitialState(c)
    [] calls[c].pc = "gm_branch" -> captureInitialBranch(c)
    [] calls[c].pc = "gm_log" -> captureInitialLog(c, F)
    [] calls[c].pc = "gm_event" -> captureInitialEvent(c)
    [] calls[c].pc = "gm_captured" -> startMonitoringArm(c)
    [] calls[c].pc = "monitored" -> startSessionReturn(c)
    [] calls[c].pc = "found" ->
         IF calls[c].op = "stopSession" THEN stopSessionFound(c)
         ELSE IF calls[c].op = "getSessionStatus"
           THEN getSessionStatusFound(c)
         ELSE isSessionActiveFound(c)
    [] calls[c].pc = "counted" -> getSessionStatusCounted(c)
    [] calls[c].pc = "flushed" -> stopWatchingFlushed(c)
    [] calls[c].pc = "close" -> stopWatchingClosed(c, F)
    [] calls[c].pc = "unwatched" -> stopMonitoring(c, F)
    [] calls[c].pc = "gm_end" -> stopMonitoringEnd(c)
    [] calls[c].pc = "unmonitored" ->
         IF calls[c].op = "stopSession" THEN stopSessionEnd(c)
         ELSE cleanupClose(c)
    [] calls[c].pc = "ended" -> stopSessionEnded(c)
    [] calls[c].pc = "branch" -> pollBranch(c, F)
    [] calls[c].pc = "branch_written" -> pollBranchWritten(c)
    [] calls[c].pc = "log" -> pollLog(c)
    [] calls[c].pc = "show" -> pollShow(c, F)
    [] calls[c].pc = "commit_written" -> pollCommitWritten(c)
    [] calls[c].pc = "status" -> pollStatus(c, F)
    [] calls[c].pc = "status_branch" -> pollStatusBranch(c, F)
    [] calls[c].pc = "status_written" -> pollStatusWritten(c)
    [] calls[c].pc = "status_done" -> pollStatusDone(c)

\* ------------------------------------------------------- steps of the system
\* the calls of startSession in flight that have not yet created their row
Starting ==
  Cardinality({ c \in 1..Len(calls) :
                  calls[c].op = "startSession" /\ calls[c].id = Null })

\* no call of the coordinator is in flight: the caller has awaited each of
\* its calls
Idle == CoordinatorCalls = {}

\* a call of startSession(p)
StartSessionOn(p) ==
  /\ ExistsDir(Resolve(p)) => Len(sessions) + Starting < MaxSessions
  /\ initialize("startSession", Resolve(p))

StartSession == Idle /\ \E p \in PathInputs : StartSessionOn(p)

\* the tables an earlier process can have left in the store file: none, a
\* session it stopped and a session it did not stop, each with the rows its
\* monitors wrote
StoresLeft ==
  { [sessions |-> <<>>, snapshots |-> <<>>, gitEvents |-> <<>>],
    [sessions |->
       << [id |-> 1, project_path |-> ProjDir, start_time |-> StoreAge,
           end_time |-> StoreAge, status |-> "completed"] >>,
     snapshots |->
       << [session_id |-> 1, file_path |-> <<"a.js">>,
           change_type |-> "modified", change |-> Null, flush |-> Null] >>,
     gitEvents |->
       << [session_id |-> 1, event_type |-> "session_start",
           branch_name |-> "main", commit_hash |-> 1,
           files_changed |-> {}],
          [session_id |-> 1, event_type |-> "session_end",
           branch_name |-> NoBranch, commit_hash |-> Null,
           files_changed |-> {}] >>],
    [sessions |->
       << [id |-> 1, project_path |-> ProjDir, start_time |-> StoreAge,
           end_time |-> Null, status |-> "active"] >>,
     snapshots |-> <<>>,
     gitEvents |->
       << [session_id |-> 1, event_type |-> "session_start",
           branch_name |-> "main", commit_hash |-> 1,
           files_changed |-> {}] >>] }

\* startSession on the project directory, called when the sessions table
\* has no row
StartFirstSession ==
  /\ Idle
  /\ sessions = <<>>
  /\ StartSessionOn([abs |-> TRUE, segs |-> ProjDir])

\* startSession on the project directory, called when the sessions table
\* has one row
StartSecondSession ==
  /\ Idle
  /\ Len(sessions) = 1
  /\ StartSessionOn([abs |-> TRUE, segs |-> ProjDir])

\* a session of the process on the project directory
StartProjectSession ==
  /\ Idle
  /\ StartSessionOn([abs |-> TRUE, segs |-> ProjDir])

StopSession == Idle /\ initialize("stopSession", NoPath)

Cleanup == Idle /\ cleanup

GetSessionStatus == Idle /\ initialize("getSessionStatus", NoPath)

IsSessionActive == Idle /\ initialize("isSessionActive", NoPath)

\* calls made while earlier calls are in flight
OverlapStartProject ==
  /\ Len(calls) < MaxCalls
  /\ StartSessionOn([abs |-> TRUE, segs |-> ProjDir])

OverlapStopSession ==
  /\ Len(calls) < MaxCalls
  /\ initialize("stopSession", NoPath)

OverlapCleanup == Len(calls) < MaxCalls /\ cleanup

OverlapGetSessionStatus ==
  /\ Len(calls) < MaxCalls
  /\ initialize("getSessionStatus", NoPath)

OverlapIsSessionActive ==
  /\ Len(calls) < MaxCalls
  /\ initialize("isSessionActive", NoPath)

\* a suspended call resumes; the operations of F succeed or fail
ContinueWith(F) == \E c \in 1..Len(calls) : Ready(c) /\ Step(c, F)

\* a suspended call resumes, every operation of the environment succeeding
Continue == ContinueWith({})

\* a suspended call resumes; in a poll cycle the reads of the repository
\* and the writes of the events fail and succeed
ContinuePollFaulty ==
  \E c \in 1..Len(calls) :
    /\ Ready(c)
    /\ Step(c, IF calls[c].op = "poll"
                 THEN {"branch", "log", "diff", "status", "write"}
                 ELSE {})

\* a suspended call resumes while the close of the watcher and the write of
\* the session_end event fail and succeed
ContinueStopFaulty == ContinueWith({"close", "write"})

\* a suspended call resumes while the watch and the store connection of the
\* git monitor fail and succeed
ContinueStartFaulty == ContinueWith({"watch", "gmInit"})

\* the watcher w reports an add, change or unlink of a file below the
\* directory it watches
FileEventOn(w, n, c) ==
  /\ w \in fmLive
  /\ Quiet
  /\ nChanges < MaxChanges
  /\ activeFiles' = trackFileChange(sessions[w].project_path \o <<n>>, c)
  /\ nChanges' = IF activeFiles' # activeFiles THEN nChanges + 1
                 ELSE nChanges
  /\ UNCHANGED <<storeVars, smVars, result, calls, fmIsWatching,
                 fmSessionId, fmProjectPath, fmWatcher, fmLive, fmInterval,
                 fmOrphanTimers, flushes, gmVars, repoVars, pollVars>>

FileEvent ==
  \E w \in fmLive, n \in FileNames, c \in ChangeTypes : FileEventOn(w, n, c)

\* a watcher reports a modified file
FileModified ==
  \E w \in fmLive, n \in FileNames : FileEventOn(w, n, "modified")

\* the snapshot interval fires: captureSnapshot runs to its first
\* suspension, or to its end when no row write suspends it
SnapshotTimerWith(F) ==
  /\ Quiet
  /\ fmInterval \/ fmOrphanTimers > 0
  /\ Len(activeFiles) = 0 \/ Len(flushes) < MaxFlushes
  /\ \E skip \in Skips(F, Len(activeFiles)) :
       /\ snapshots' =
            captureSnapshot(fmIsWatching, fmSessionId, skip).snapshots
       /\ flushes' =
            captureSnapshot(fmIsWatching, fmSessionId, skip).flushes
       /\ activeFiles' =
            captureSnapshot(fmIsWatching, fmSessionId, skip).activeFiles
  /\ UNCHANGED <<sessions, gitEvents, now, storeWrites, smVars, result,
                 calls, fmIsWatching, fmSessionId, fmProjectPath, fmWatcher,
                 fmLive, fmInterval, fmOrphanTimers, nChanges, gmVars,
                 repoVars, pollVars>>

SnapshotTimer == SnapshotTimerWith({})

SnapshotTimerFaulty == SnapshotTimerWith({"file"})

\* a suspended captureSnapshot resumes after its row write (150-162): the
\* loop runs past the next skip files of its copy, which throw in the loop
\* body, writes the row of the file after them, for the session id the
\* monitor holds by now, and is suspended again; when no file is left it
\* clears the pending mapping and returns
ResumeCaptureWith(f, F) ==
  /\ Quiet
  /\ ~flushes[f].done
  /\ \E skip \in Skips(F, Len(flushes[f].filesToCapture) - flushes[f].idx) :
       IF skip > 0 /\ fileErrorAborts
         THEN /\ flushes' = [flushes EXCEPT ![f] = FinishedCapture]
              /\ UNCHANGED <<snapshots, activeFiles>>
       ELSE IF flushes[f].idx + skip >= Len(flushes[f].filesToCapture)
         THEN /\ activeFiles' = <<>>
              /\ flushes' = [flushes EXCEPT ![f] = FinishedCapture]
              /\ UNCHANGED snapshots
       ELSE /\ snapshots' = CaptureFile(snapshots, fmSessionId,
                 flushes[f].filesToCapture[flushes[f].idx + skip + 1], f)
            /\ flushes' = [flushes EXCEPT
                 ![f].idx = @ + skip + 1,
                 ![f].sids = @ \o [ i \in 1..(skip + 1) |-> fmSessionId ]]
            /\ UNCHANGED activeFiles
  /\ UNCHANGED <<sessions, gitEvents, now, storeWrites, smVars, result,
                 calls, fmIsWatching, fmSessionId, fmProjectPath, fmWatcher,
                 fmLive, fmInterval, fmOrphanTimers, nChanges, gmVars,
                 repoVars, pollVars>>

Resume == \E f \in 1..Len(flushes) : ResumeCaptureWith(f, {})

ResumeFaulty == \E f \in 1..Len(flushes) : ResumeCaptureWith(f, {"file"})

\* the poll interval fires
PollTimer ==
  /\ Quiet
  /\ gmInterval \/ gmOrphanTimers > 0
  /\ polls < MaxPolls
  /\ pollGitChanges
  /\ polls' = polls + 1
  /\ UNCHANGED <<storeVars, smVars, result, fmVars, fmAux, gmVars,
                 repoVars>>

\* the poll interval fires when the poll cycle before it has returned
PollTimerAlone ==
  /\ \A c \in 1..Len(calls) : calls[c].op # "poll"
  /\ PollTimer

envUnchanged == UNCHANGED <<storeVars, smVars, result, calls, fmVars, fmAux,
                            gmVars, pollVars>>

\* the developer commits, switches branch, drops the newest commit or
\* changes the working tree
GitCommit ==
  /\ Quiet
  /\ nextHash <= MaxHash
  /\ repoLog' = <<nextHash>> \o repoLog
  /\ nextHash' = nextHash + 1
  /\ UNCHANGED <<repoBranch, repoTree>>
  /\ envUnchanged

\* the developer pulls: up to MaxPull commits land at once on top of the
\* history
GitPull ==
  \E k \in 1..MaxPull :
    /\ Quiet
    /\ nextHash <= MaxHash
    /\ repoLog' = [ i \in 1..k |-> nextHash + k - i ] \o repoLog
    /\ nextHash' = nextHash + k
    /\ UNCHANGED <<repoBranch, repoTree>>
    /\ envUnchanged

GitCheckout ==
  \E b \in Branches \ {repoBranch} :
    /\ Quiet
    /\ repoBranch' = b
    /\ UNCHANGED <<repoLog, repoTree, nextHash>>
    /\ envUnchanged

GitReset ==
  /\ Quiet
  /\ Len(repoLog) > 1
  /\ repoLog' = Tail(repoLog)
  /\ UNCHANGED <<repoBranch, repoTree, nextHash>>
  /\ envUnchanged

GitTree ==
  \E t \in TreeCases \ {repoTree} :
    /\ Quiet
    /\ repoTree' = t
    /\ UNCHANGED <<repoBranch, repoLog, nextHash>>
    /\ envUnchanged

\* the developer commits, switches branch or changes the working tree while
\* the git monitor is monitoring
CommitMonitored == gmIsMonitoring /\ GitCommit

CheckoutMonitored == gmIsMonitoring /\ GitCheckout

TreeMonitored == gmIsMonitoring /\ GitTree

\* ------------------------------------------------------------ specification
Init ==
  /\ storeWrites \in BOOLEAN
  /\ \E left \in StoresLeft :
       /\ sessions = left.sessions
       /\ snapshots = IF storeWrites THEN left.snapshots ELSE <<>>
       /\ gitEvents = IF storeWrites THEN left.gitEvents ELSE <<>>
  /\ now = StoreAge
  /\ smInitialized = FALSE /\ smDbOpen = FALSE /\ currentSession = Null
  /\ result = Outcome("none", FALSE, FALSE, Null, "", Null, {})
  /\ calls = <<>>
  /\ fmIsWatching = FALSE /\ fmSessionId = Null /\ fmProjectPath = NoPath
  /\ fmWatcher = Null /\ fmLive = {} /\ fmInterval = FALSE
  /\ activeFiles = <<>> /\ flushes = <<>> /\ nChanges = 0
  /\ gmIsMonitoring = FALSE /\ gmGit = FALSE /\ gmSessionId = Null
  /\ gmProjectPath = NoPath /\ gmInterval = FALSE /\ gmDbOpen = FALSE
  /\ lastCommitHash = Null /\ lastBranch = NoBranch
  /\ repoBranch = "main" /\ repoLog = <<1>> /\ repoTree = {}
  /\ nextHash = 2 /\ polls = 0
  /\ lastPoll = Returned(NewCall("poll", "none", "none"))
  /\ fmOrphanTimers = 0 /\ gmOrphanTimers = 0

\* the coordinator's calls, each awaited before the next, with files
\* modified at their suspensions and between them
Next ==
  \/ StartSession
  \/ StopSession
  \/ Cleanup
  \/ Continue
  \/ FileModified

Spec == Init /\ [][Next]_vars

\* a store that no earlier process wrote to and whose class has the methods
\* insertSnapshot and insertGitEvent of the design
InitDesign == Init /\ sessions = <<>> /\ storeWrites

\* a store that holds a stopped session of an earlier process and its rows
InitUsed ==
  Init /\ storeWrites /\ Len(sessions) = 1 /\ sessions[1].status = "completed"

\* a store that no earlier process wrote to
InitFresh == Init /\ sessions = <<>>

\* one session on the project directory: the file monitor from startWatching
\* to stopWatching, with file changes and the snapshot timer
NextFile ==
  \/ StartFirstSession
  \/ StopSession
  \/ Continue
  \/ FileEvent
  \/ SnapshotTimer
  \/ Resume

SpecFile == InitDesign /\ [][NextFile]_vars

\* one session on the project directory that is not stopped: file
\* modifications, the snapshot timer and the capture runs it starts
NextCapture ==
  \/ StartFirstSession
  \/ Continue
  \/ FileModified
  \/ SnapshotTimer
  \/ Resume

SpecCapture == InitDesign /\ [][NextCapture]_vars

\* one session on the project directory that is not stopped: the git
\* monitor polling while commits are made and dropped on the one branch,
\* with a clean tree
NextCommits ==
  \/ StartFirstSession
  \/ Continue
  \/ PollTimerAlone
  \/ GitCommit
  \/ GitReset

SpecCommits == InitDesign /\ [][NextCommits]_vars

\* one session on the project directory that is not stopped: the poll
\* timer firing also while earlier poll cycles are suspended, and commits
\* made and dropped
NextPolls ==
  \/ StartFirstSession
  \/ Continue
  \/ PollTimer
  \/ GitCommit
  \/ GitReset

SpecPolls == InitDesign /\ [][NextPolls]_vars

\* one session on the project directory: the git monitor polling while the
\* branch is switched and the working tree changes under it, with no new
\* commit
NextBranch ==
  \/ StartFirstSession
  \/ StopSession
  \/ Continue
  \/ PollTimerAlone
  \/ CheckoutMonitored
  \/ TreeMonitored

SpecBranch == InitDesign /\ [][NextBranch]_vars

\* calls of startSession on the project directory, of stopSession and of
\* getSessionStatus made while earlier calls are suspended at their awaits
NextOverlap ==
  \/ OverlapStartProject
  \/ OverlapStopSession
  \/ OverlapGetSessionStatus
  \/ Continue

SpecOverlap == Init /\ [][NextOverlap]_vars

\* one session on the project directory, stopped while capture runs and
\* poll cycles are suspended at their awaits
NextInFlight ==
  \/ StartFirstSession
  \/ StopSession
  \/ Continue
  \/ FileModified
  \/ SnapshotTimer
  \/ Resume
  \/ PollTimerAlone
  \/ CheckoutMonitored

SpecInFlight == InitDesign /\ [][NextInFlight]_vars

\* sessions on the project directory stopped and started again while
\* capture runs are suspended at their awaits
NextRestart ==
  \/ StartProjectSession
  \/ StopSession
  \/ Continue
  \/ FileEvent
  \/ SnapshotTimer
  \/ Resume

SpecRestart == InitDesign /\ [][NextRestart]_vars

\* one session on the project directory that is not stopped, started on
\* whatever branch and HEAD the repository has by then, and polled with a
\* clean tree
NextBaseline ==
  \/ StartFirstSession
  \/ Continue
  \/ PollTimerAlone
  \/ GitCommit
  \/ GitCheckout

SpecBaseline == InitDesign /\ [][NextBaseline]_vars

\* one session on the project directory that is not stopped, polled while
\* commits are made under it and the reads of the repository and the writes
\* of the events fail and succeed
NextFaults ==
  \/ StartFirstSession
  \/ ContinuePollFaulty
  \/ PollTimerAlone
  \/ CommitMonitored

SpecFaults == InitDesign /\ [][NextFaults]_vars

\* sessions on the project directory, stopped while the close of the
\* watcher and the write of the session_end event fail and succeed
NextStopFaults ==
  \/ StartProjectSession
  \/ StopSession
  \/ Cleanup
  \/ ContinueStopFaulty

SpecStopFaults == InitDesign /\ [][NextStopFaults]_vars

\* sessions started while the watch and the store connection of the git
\* monitor fail and succeed
NextAttach ==
  \/ StartSession
  \/ StopSession
  \/ ContinueStartFaulty

SpecAttach == Init /\ [][NextAttach]_vars

\* one session on the project directory, its flushes running while the
\* capture of single files fails and succeeds
NextCaptureFaults ==
  \/ StartFirstSession
  \/ Continue
  \/ FileModified
  \/ SnapshotTimerFaulty
  \/ ResumeFaulty

SpecCaptureFaults == InitFresh /\ [][NextCaptureFaults]_vars

\* one session on the project directory, with calls of stopSession made
\* also while earlier calls are suspended, files modified, the snapshot
\* interval firing and the capture runs it starts
NextTimers ==
  \/ StartFirstSession
  \/ OverlapStopSession
  \/ Continue
  \/ FileModified
  \/ SnapshotTimer
  \/ Resume

SpecTimers == InitDesign /\ [][NextTimers]_vars

\* one session on the project directory, polled while the history only
\* grows, by one or by several commits at a time
NextGrowth ==
  \/ StartFirstSession
  \/ StopSession
  \/ Continue
  \/ PollTimerAlone
  \/ GitPull

SpecGrowth == InitDesign /\ [][NextGrowth]_vars

\* the coordinator's calls with its status queries between them
NextLifecycle ==
  \/ StartSession
  \/ StopSession
  \/ Cleanup
  \/ GetSessionStatus
  \/ IsSessionActive
  \/ Continue

SpecLifecycle == Init /\ [][NextLifecycle]_vars

\* a session started on a store that holds the rows of an earlier one, while
\* the file monitor tracks changes and the snapshot timer writes them, with
\* the status read at any point
NextStats ==
  \/ StartSecondSession
  \/ GetSessionStatus
  \/ Continue
  \/ FileModified
  \/ SnapshotTimer
  \/ Resume

SpecStats == InitUsed /\ [][NextStats]_vars

\* every call of the coordinator made while earlier calls are suspended
NextConcurrent ==
  \/ OverlapStartProject
  \/ OverlapStopSession
  \/ OverlapCleanup
  \/ OverlapGetSessionStatus
  \/ OverlapIsSessionActive
  \/ Continue

SpecConcurrent == Init /\ [][NextConcurrent]_vars

\* ------------------------------------------------------------------ claims
monitorState == <<fmIsWatching, fmSessionId, fmProjectPath, fmWatcher,
                  fmLive, fmInterval, fmOrphanTimers, activeFiles, flushes,
                  nChanges, gmIsMonitoring, gmGit, gmSessionId,
                  gmProjectPath, gmInterval, gmOrphanTimers, gmDbOpen,
                  lastCommitHash, lastBranch>>

storeRows == <<sessions, snapshots, gitEvents>>

\* this step is call c of op resuming at pc
Runs(c, op, pc) ==
  /\ calls[c].op = op
  /\ calls[c].pc = pc
  /\ ~Nested(c)
  /\ Ready(c)
  /\ Step(c, FaultKinds)

\* the locals of the call that took this step, suspended again
After == calls'[Len(calls')]

\* this step is the git process reading the repository for the read call c
\* of op awaits at pc
GitReads(c, op, pc) ==
  /\ calls[c].op = op
  /\ calls[c].pc = pc
  /\ calls[c].wait = "git"
  /\ Ready(c)
  /\ Step(c, FaultKinds)

\* C1: after any sequence of startSession and stopSession calls, each
\* awaited before the next is made, the sessions table holds at most one row
\* with status active.
C1_AtMostOneActive == Cardinality(ActiveRows) <= 1

\* a second session is active after the first one was completed
C1_Witness ==
  /\ Len(sessions) = 2
  /\ sessions[1].status = "completed"
  /\ sessions[2].status = "active"
  /\ result.op = "startSession"
  /\ result.success

\* C2: startSession with an existing path, called while the store has an
\* active session, finds that session, throws an error that carries its id,
\* and none of its steps changes the three tables, the state of either
\* monitor or the session the coordinator keeps.
C2_ConflictChangesNothing ==
  [][/\ (StartSession /\ ActiveRows # {})
          => UNCHANGED <<storeRows, monitorState, currentSession>>
     /\ \A c \in 1..Len(calls) :
          /\ ( /\ Runs(c, "startSession", "init")
               /\ ActiveRows # {} )
             => UNCHANGED <<storeRows, monitorState, currentSession>>
          /\ ( /\ Runs(c, "startSession", "ready")
               /\ calls[c].path \in ExistingDirs
               /\ ActiveRows # {} )
             => /\ After.active \in { sessions[i].id : i \in ActiveRows }
                /\ UNCHANGED <<storeRows, monitorState, currentSession>>
          /\ ( /\ Runs(c, "startSession", "checked")
               /\ ActiveRows # {} )
             => /\ result'.op = "startSession"
                /\ result'.threw
                /\ result'.error = "Session already active"
                /\ result'.errorId = calls[c].active
                /\ calls' = Remove(calls, c)
                /\ UNCHANGED <<storeRows, monitorState,
                               currentSession>>]_vars

\* C3: startSession with a path that does not exist throws, and none of its
\* steps changes the three tables, the state of either monitor or the
\* session the coordinator keeps, whether or not a session is active.
C3_MissingPathChangesNothing ==
  [][/\ StartSession
          => UNCHANGED <<storeRows, monitorState, currentSession>>
     /\ \A c \in 1..Len(calls) :
          /\ ( /\ Runs(c, "startSession", "init")
               /\ calls[c].path \notin ExistingDirs )
             => UNCHANGED <<storeRows, monitorState, currentSession>>
          /\ ( /\ Runs(c, "startSession", "ready")
               /\ calls[c].path \notin ExistingDirs )
             => /\ result'.op = "startSession"
                /\ result'.threw
                /\ result'.error = "Project path does not exist"
                /\ calls' = Remove(calls, c)
                /\ UNCHANGED <<storeRows, monitorState,
                               currentSession>>]_vars

\* a start on a missing path was refused while a session was active
C3_Witness ==
  /\ result.op = "startSession"
  /\ result.threw
  /\ result.error = "Project path does not exist"
  /\ ActiveRows # {}
  /\ fmIsWatching

\* C4: stopSession with no active session returns success = false without
\* throwing, and none of its steps changes a row, either monitor or the
\* session the coordinator keeps; called again it returns the same result.
C4_StopWithoutSession ==
  [][/\ (StopSession /\ ActiveRows = {})
          => UNCHANGED <<storeRows, monitorState, currentSession>>
     /\ \A c \in 1..Len(calls) :
          /\ ( /\ Runs(c, "stopSession", "ready")
               /\ ActiveRows = {} )
             => /\ After.active = Null
                /\ After.err = ""
                /\ UNCHANGED <<storeRows, monitorState, currentSession,
                               result>>
          /\ ( /\ Runs(c, "stopSession", "found")
               /\ ActiveRows = {} )
             => /\ result'.op = "stopSession"
                /\ ~result'.threw
                /\ ~result'.success
                /\ calls' = Remove(calls, c)
                /\ UNCHANGED <<storeRows, monitorState, currentSession>>
                /\ (result.op = "stopSession" /\ ~result.success
                      /\ ~result.threw => result' = result)]_vars

\* the rows of the snapshots table that record tracked change n
RowsOfChange(tbl, n) == { r \in 1..Len(tbl) : tbl[r].change = n }

\* C5: a file change tracked while a captureSnapshot run is suspended
\* between its row writes is still pending when that run finishes.
C5_TrackedDuringFlushStaysPending ==
  [][\A f \in 1..Len(flushes) :
       ( /\ Len(flushes') = Len(flushes)
         /\ ~flushes[f].done
         /\ flushes'[f].done )
       => \A i \in 1..Len(activeFiles) :
            activeFiles[i].timestamp > flushes[f].began
            => \E j \in 1..Len(activeFiles') :
                 activeFiles'[j] = activeFiles[i]]_vars

\* C6: each tracked change is written as a snapshots row by at most one
\* captureSnapshot run, also when two runs overlap.
C6_NoChangeWrittenTwice ==
  \A n \in 1..nChanges : Cardinality(RowsOfChange(snapshots, n)) <= 1

\* C7: coalescing.  The pending mapping holds one entry per path, with the
\* kind of the last change tracked for it; whenever a step empties the
\* mapping (a captureSnapshot run finishing, or stopWatching after its
\* final run), every entry it held has exactly one snapshots row, and that
\* row has the kind of the entry.
C7_Coalescing ==
  [][( /\ Len(activeFiles) > 0
       /\ Len(activeFiles') = 0 )
     => \A i \in 1..Len(activeFiles) :
          /\ Cardinality(RowsOfChange(snapshots', activeFiles[i].timestamp))
               = 1
          /\ \A r \in RowsOfChange(snapshots', activeFiles[i].timestamp) :
               /\ snapshots'[r].file_path = activeFiles[i].path
               /\ snapshots'[r].change_type = activeFiles[i].changeType]_vars

\* C8: a captureSnapshot run that finds the pending mapping empty writes no
\* row and leaves the store and the monitor as they were; this holds for the
\* timer's run and for the initial run of startWatching.
C8_EmptyFlushWritesNothing ==
  [][/\ ( /\ fmIsWatching
          /\ fmSessionId # Null
          /\ Len(activeFiles) = 0
          /\ SnapshotTimer )
        => UNCHANGED vars
     /\ \A c \in 1..Len(calls) :
          ( /\ Runs(c, "startSession", "watch")
            /\ fmIsWatching'
            /\ Len(activeFiles) = 0 )
          => /\ UNCHANGED <<storeRows, flushes, activeFiles>>
             /\ After.pc = "arm"
             /\ After.wait = "tick"]_vars

\* the monitor watches with the timer armed, nothing is pending and no row
\* was written: the initial run found the mapping empty
C8_Witness ==
  /\ fmIsWatching
  /\ fmInterval
  /\ fmSessionId # Null
  /\ Len(activeFiles) = 0
  /\ snapshots = <<>>
  /\ flushes = <<>>

\* C9: every change that is pending when stopWatching clears the pending
\* mapping, in a stopSession call, is by then written as a snapshots row
\* of the session.
C9_StopFlushesPending ==
  [][\A c \in 1..Len(calls) :
       ( /\ Ready(c)
         /\ Step(c, FaultKinds)
         /\ calls[c].op = "stopSession"
         /\ Len(activeFiles') = 0 )
       => \A i \in 1..Len(activeFiles) :
            \E r \in 1..Len(snapshots') :
              /\ snapshots'[r].change = activeFiles[i].timestamp
              /\ snapshots'[r].session_id = fmSessionId]_vars

\* the rows of tbl after position n that hold an event of type t
EventRows(tbl, n, t) ==
  { r \in (n + 1)..Len(tbl) : tbl[r].event_type = t }

IsCommitEvent(row) == row.event_type = "commit"

\* the hashes of the commit events among rows, in order
CommitHashes(rows) ==
  [ i \in 1..Len(SelectSeq(rows, IsCommitEvent)) |->
      SelectSeq(rows, IsCommitEvent)[i].commit_hash ]

\* this step is poll cycle c returning; lastPoll' is then its record
PollReturns(c) ==
  /\ calls[c].op = "poll"
  /\ calls' = Remove(calls, c)
  /\ Ready(c)
  /\ Step(c, FaultKinds)

\* this step is poll cycle c returning while the monitor still holds the
\* session the cycle began under
PollCompletes(c) ==
  /\ PollReturns(c)
  /\ calls[c].sid # Null
  /\ gmSessionId' = calls[c].sid

\* C10: when a poll cycle read the commits newest first and the last-known
\* hash was the one after k >= 1 newer commits, the cycle has written
\* exactly those k commits as commit events, oldest first, when it returns,
\* and the last-known hash is the newest hash; a cycle that found the
\* newest hash equal to the last-known hash has written no commit event.
C10_CommitDetection ==
  [][\A c \in 1..Len(calls) :
       PollCompletes(c)
       => /\ \A k \in 1..(RecentCount - 1) :
               ( /\ k + 1 <= Len(lastPoll'.recent)
                 /\ lastPoll'.recent[k + 1] = lastPoll'.base )
               => /\ CommitHashes(lastPoll'.wrote)
                       = [ i \in 1..k |-> lastPoll'.recent[k + 1 - i] ]
                  /\ lastCommitHash' = lastPoll'.recent[1]
          /\ ( /\ Len(lastPoll'.recent) > 0
               /\ lastPoll'.recent[1] = lastPoll'.base )
             => /\ CommitHashes(lastPoll'.wrote) = <<>>
                /\ lastCommitHash' = lastPoll'.base]_vars

\* one poll found three commits above the baseline and recorded them oldest
\* first; a second poll with the same head added none
C10_Witness ==
  /\ polls = 2
  /\ calls = <<>>
  /\ lastPoll.pc = "returned"
  /\ lastPoll.recent = <<4, 3, 2, 1>>
  /\ lastPoll.base = 4
  /\ lastPoll.wrote = <<>>
  /\ lastCommitHash = 4
  /\ CommitHashes(gitEvents) = <<2, 3, 4>>
  /\ \E r \in 1..Len(gitEvents) :
       /\ gitEvents[r].event_type = "session_start"
       /\ gitEvents[r].commit_hash = 1

\* C11: when the last-known hash is not among the commits a poll cycle read
\* and the newest hash differs from it, the cycle has written one commit
\* event for every commit read, oldest first, when it returns, and the
\* last-known hash is the newest hash.
C11_UnknownBaselineTakesAll ==
  [][\A c \in 1..Len(calls) :
       ( /\ PollCompletes(c)
         /\ Len(lastPoll'.recent) > 0
         /\ \A i \in 1..Len(lastPoll'.recent) :
              lastPoll'.recent[i] # lastPoll'.base )
       => /\ CommitHashes(lastPoll'.wrote) = Reverse(lastPoll'.recent)
          /\ lastCommitHash' = lastPoll'.recent[1]
          /\ ~lastPoll'.rejected]_vars

\* the session began at commit 3, which was then dropped; the poll read
\* commits 2 and 1 and recorded both, oldest first
C11_Witness ==
  /\ polls = 1
  /\ lastPoll.pc = "returned"
  /\ lastPoll.base = 3
  /\ lastPoll.recent = <<2, 1>>
  /\ repoLog = <<2, 1>>
  /\ lastCommitHash = 2
  /\ CommitHashes(lastPoll.wrote) = <<1, 2>>
  /\ \E r \in 1..Len(gitEvents) :
       /\ gitEvents[r].event_type = "session_start"
       /\ gitEvents[r].commit_hash = 3

\* C12: a poll cycle whose branch read gives a branch other than the
\* last-known one writes exactly one branch_change event, naming the branch
\* read, and makes it the last-known branch once the write has returned; a
\* cycle whose branch read gives the last-known branch writes no
\* branch_change event, and no later step of a cycle writes one.
C12_BranchDetection ==
  [][\A c \in 1..Len(calls) :
       /\ GitReads(c, "poll", "branch")
          => After.seen.branch = repoBranch
       /\ ( /\ Runs(c, "poll", "branch")
            /\ gmSessionId # Null )
          => IF calls[c].seen.branch # lastBranch
               THEN /\ Len(gitEvents') = Len(gitEvents) + 1
                    /\ EventRows(gitEvents', Len(gitEvents),
                                 "branch_change") = {Len(gitEvents')}
                    /\ gitEvents'[Len(gitEvents')].branch_name
                         = calls[c].seen.branch
                    /\ gitEvents'[Len(gitEvents')].session_id = gmSessionId
                    /\ After.pc = "branch_written"
                    /\ After.branch = calls[c].seen.branch
               ELSE /\ gitEvents' = gitEvents
                    /\ lastBranch' = calls[c].seen.branch
                    /\ After.pc = "log"
       /\ Runs(c, "poll", "branch_written")
          => /\ lastBranch' = calls[c].branch
             /\ gitEvents' = gitEvents
             /\ After.pc = "log"
       /\ ( /\ calls[c].op = "poll"
            /\ ~Runs(c, "poll", "branch")
            /\ Ready(c)
            /\ Step(c, FaultKinds) )
          => EventRows(gitEvents', Len(gitEvents), "branch_change")
               = {}]_vars

\* the branch was switched once and polled twice: one branch_change event
C12_Witness ==
  /\ polls = 2
  /\ calls = <<>>
  /\ lastPoll.pc = "returned"
  /\ lastPoll.branch = "feature/x"
  /\ lastPoll.wrote = <<>>
  /\ repoBranch = "feature/x"
  /\ lastBranch = "feature/x"
  /\ Cardinality(EventRows(gitEvents, 0, "branch_change")) = 1
  /\ \A r \in EventRows(gitEvents, 0, "branch_change") :
       gitEvents[r].branch_name = "feature/x"

\* C13: level trigger.  Every poll cycle that finds the working tree dirty
\* has written exactly one status_change event when it returns, whether or
\* not an earlier cycle reported the same tree; a cycle that finds a clean
\* tree has written none.
C13_StatusLevelTrigger ==
  [][\A c \in 1..Len(calls) :
       PollCompletes(c)
       => Cardinality(EventRows(lastPoll'.wrote, 0, "status_change"))
            = (IF lastPoll'.tree # {} THEN 1 ELSE 0)]_vars

\* C14: a poll cycle has written a status_change event when it returns if
\* and only if one of the working-tree lists (staged, modified, untracked,
\* deleted) it read is non-empty, and the event carries the lists.
C14_StatusIffAnyList ==
  [][\A c \in 1..Len(calls) :
       PollCompletes(c)
       => /\ (\E r \in EventRows(lastPoll'.wrote, 0, "status_change") :
                lastPoll'.wrote[r].files_changed = lastPoll'.tree)
            <=> lastPoll'.tree # {}
          /\ Cardinality(EventRows(lastPoll'.wrote, 0, "status_change"))
               <= 1]_vars

\* C15: when the file monitor, the git monitor or both did not attach (the
\* watch failed, the path is no repository, the store connection of the git
\* monitor failed), startSession does not throw: it returns success with
\* the id of the new session, whose row is active, and the monitor that
\* did not attach is not running.
C15_StartSurvivesMonitorFailure ==
  [][\A c \in 1..Len(calls) :
       ( /\ Runs(c, "startSession", "monitored")
         /\ ~calls[c].fileStarted \/ ~calls[c].gitStarted )
       => /\ result'.op = "startSession"
          /\ ~result'.threw
          /\ result'.success
          /\ result'.sessionId = calls[c].id
          /\ calls[c].id \in 1..Len(sessions)
          /\ sessions'[calls[c].id].status = "active"
          /\ sessions'[calls[c].id].project_path = calls[c].path
          /\ ActiveRows' = {calls[c].id}
          /\ ~calls[c].fileStarted => ~fmIsWatching'
          /\ ~calls[c].gitStarted => ~gmIsMonitoring' /\ ~gmInterval'
          /\ calls' = Remove(calls, c)]_vars

\* a session was started on the repository with neither monitor attached:
\* the watch failed and so did the store connection of the git monitor
C15_Witness ==
  /\ result.op = "startSession"
  /\ result.success
  /\ ~result.threw
  /\ ActiveRows = {result.sessionId}
  /\ sessions[result.sessionId].project_path = ProjDir
  /\ ~fmIsWatching
  /\ ~gmIsMonitoring
  /\ gmGit
  /\ gmSessionId = result.sessionId
  /\ result.monitoring = {"basic session tracking"}

\* C16: whenever a monitor did not attach during startSession, the result
\* carries a warning field.
C16_DegradedStartWarns ==
  [][\A c \in 1..Len(calls) :
       ( /\ Runs(c, "startSession", "monitored")
         /\ ~calls[c].fileStarted \/ ~calls[c].gitStarted )
       => result'.warning # ""]_vars

\* C17: stopSession with an active session stops both monitors before it
\* closes the session row: when endSession is called neither monitor runs,
\* and when stopSession returns the row is completed with an end time,
\* neither monitor runs, currentSession is cleared and the result is
\* success with the id of that session.
C17_StopClosesSession ==
  [][\A c \in 1..Len(calls) :
       /\ ( /\ Runs(c, "stopSession", "unmonitored")
            /\ smDbOpen )
          => /\ calls[c].id \in ActiveRows
             /\ ~fmIsWatching /\ ~fmInterval /\ fmWatcher = Null
             /\ ~gmIsMonitoring /\ ~gmInterval
             /\ sessions'[calls[c].id].status = "completed"
             /\ sessions'[calls[c].id].end_time # Null
             /\ sessions'[calls[c].id].end_time
                  >= sessions'[calls[c].id].start_time
             /\ After.stopped
       /\ ( /\ Runs(c, "stopSession", "ended")
            /\ calls[c].err = "" )
          => /\ result'.op = "stopSession"
             /\ ~result'.threw
             /\ result'.success
             /\ result'.sessionId = calls[c].id
             /\ sessions'[calls[c].id].status = "completed"
             /\ sessions'[calls[c].id].end_time # Null
             /\ ActiveRows' = {}
             /\ ~fmIsWatching' /\ ~fmInterval' /\ fmWatcher' = Null
             /\ ~gmIsMonitoring' /\ ~gmInterval'
             /\ currentSession' = Null
             /\ calls' = Remove(calls, c)]_vars

\* a session with the git monitor running was stopped
C17_Witness ==
  /\ result.op = "stopSession"
  /\ result.success
  /\ result.sessionId # Null
  /\ sessions[result.sessionId].status = "completed"
  /\ sessions[result.sessionId].end_time # Null
  /\ currentSession = Null
  /\ calls = <<>>
  /\ \E r \in EventRows(gitEvents, 0, "session_end") :
       gitEvents[r].session_id = result.sessionId

\* the rows of tbl tagged with session id
RowsOfSession(tbl, id) == { r \in 1..Len(tbl) : tbl[r].session_id = id }

\* C18: getSessionStatus with a session active reports active = true, the
\* id of the active session, and as stats the numbers of snapshots rows and
\* git_events rows tagged with that id.
C18_StatusCountsActiveSession ==
  [][\A c \in 1..Len(calls) :
       ( /\ Runs(c, "getSessionStatus", "counted")
         /\ calls[c].err = "" )
       => /\ result'.op = "getSessionStatus"
          /\ ~result'.threw
          /\ result'.active
          /\ result'.sessionId = calls[c].id
          /\ ActiveRows = {calls[c].id}
          /\ result'.stats.snapshots
               = Cardinality(RowsOfSession(snapshots, calls[c].id))
          /\ result'.stats.gitEvents
               = Cardinality(RowsOfSession(gitEvents, calls[c].id))]_vars

\* the status of a second session was read while the tables also held rows
\* of the first
C18_Witness ==
  /\ result.op = "getSessionStatus"
  /\ result.active
  /\ result.sessionId = 2
  /\ result.stats.snapshots = 1
  /\ result.stats.gitEvents = 1
  /\ Cardinality(RowsOfSession(snapshots, 1)) = 1
  /\ Cardinality(RowsOfSession(gitEvents, 1)) = 2
  /\ Len(snapshots) = 2
  /\ Len(gitEvents) = 3

\* this step is call c returning or throwing
Returns(c) ==
  /\ Ready(c)
  /\ Step(c, FaultKinds)
  /\ calls' = Remove(calls, c)

\* C19: no_session -> active -> no_session.  getSessionStatus and
\* isSessionActive report active exactly when a session is active (so not
\* before the first start), with the id and path of that session; a
\* startSession that succeeds has made its new session the active one,
\* under an id no earlier session has; after stopSession no session is
\* active.
C19_QueriesFollowLifecycle ==
  \A c \in 1..Len(calls) :
    ( /\ Returns(c)
      /\ calls[c].op \in {"getSessionStatus", "isSessionActive"} )
    => /\ result'.op = calls[c].op
       /\ ~result'.threw
       /\ result'.active <=> ActiveRows # {}
       /\ sessions = <<>> => ~result'.active
       /\ (calls[c].op = "getSessionStatus" /\ ActiveRows # {})
            => \A i \in ActiveRows :
                 /\ result'.sessionId = sessions[i].id
                 /\ result'.projectPath = sessions[i].project_path

C19_StartActivates ==
  \A c \in 1..Len(calls) :
    /\ ( /\ Runs(c, "startSession", "checked")
         /\ Len(sessions') > Len(sessions) )
       => /\ ActiveRows = {}
          /\ \A i \in 1..Len(sessions) : sessions[i].id # After.id
          /\ ActiveRows' = {After.id}
          /\ sessions'[After.id].id = After.id
          /\ sessions'[After.id].project_path = calls[c].path
    /\ Runs(c, "startSession", "monitored")
       => /\ result'.success
          /\ result'.sessionId = calls[c].id
          /\ ActiveRows' = {calls[c].id}

C19_StopDeactivates ==
  \A c \in 1..Len(calls) :
    ( /\ Returns(c)
      /\ calls[c].op = "stopSession" )
    => ActiveRows' = {}

C19_Lifecycle ==
  /\ [][C19_QueriesFollowLifecycle]_vars
  /\ [][C19_StartActivates]_vars
  /\ [][C19_StopDeactivates]_vars

\* C20: cleanup() does not throw in any state it is called in (never
\* initialized, session active with the monitors running, after
\* stopSession, after an earlier cleanup, the close of the watcher or the
\* write of the session_end event failing or not); when it returns neither
\* monitor runs, no interval is armed and the coordinator's store
\* connection is closed.
C20_CleanupAnyState ==
  [][\A c \in 1..Len(calls) :
       ( /\ Returns(c)
         /\ calls[c].op = "cleanup" )
       => /\ result'.op = "cleanup"
          /\ ~result'.threw
          /\ ~fmIsWatching' /\ ~fmInterval'
          /\ ~gmIsMonitoring' /\ ~gmInterval'
          /\ ~gmGit' /\ gmSessionId' = Null
          /\ ~smDbOpen']_vars

\* cleanup ran while a session was active with its monitors running: the
\* monitors are stopped and the connection is closed
C20_Witness ==
  /\ result.op = "cleanup"
  /\ ~result.threw
  /\ calls = <<>>
  /\ smInitialized
  /\ ~smDbOpen
  /\ ActiveRows # {}
  /\ ~fmIsWatching
  /\ ~gmIsMonitoring
  /\ \E r \in EventRows(gitEvents, 0, "session_end") :
       gitEvents[r].session_id \in { sessions[i].id : i \in ActiveRows }

\* C21: startMonitoring on a path that is no repository returns false, arms
\* no poll timer and leaves the monitor not monitoring; and the git_events
\* table never holds an event of a session whose path is no repository.
C21_NonRepositoryWritesNothing ==
  /\ [][\A c \in 1..Len(calls) :
          ( /\ Runs(c, "startSession", "gm_repo")
            /\ calls[c].path \notin Repositories )
          => /\ After.pc = "monitored"
             /\ ~After.gitStarted
             /\ ~gmIsMonitoring'
             /\ ~gmInterval'
             /\ UNCHANGED gitEvents]_vars
  /\ [](\A r \in 1..Len(gitEvents) :
          sessions[gitEvents[r].session_id].project_path \in Repositories)

\* C22: when calls of startSession overlap, a call that resumes after its
\* active-session check while a session is active fails with the conflict
\* error and creates no row, and at no time do two rows have status active.
C22_OverlappingStartsConflict ==
  /\ [][\A c \in 1..Len(calls) :
          ( /\ Runs(c, "startSession", "checked")
            /\ ActiveRows # {} )
          => /\ result'.op = "startSession"
             /\ result'.threw
             /\ result'.error = "Session already active"
             /\ UNCHANGED sessions]_vars
  /\ [](Cardinality(ActiveRows) <= 1)

\* C23: stop waits for work in flight.  While a poll cycle is suspended the
\* git monitor keeps its repository handle, session id and baseline branch,
\* and while a captureSnapshot run is suspended the file monitor keeps its
\* session id; and no git event of a session follows its session_end event.
C23_StopWaitsForWorkInFlight ==
  /\ []((\E c \in 1..Len(calls) : calls[c].op = "poll")
        => gmGit /\ gmSessionId # Null /\ lastBranch # NoBranch)
  /\ [](\A f \in 1..Len(flushes) :
          ~flushes[f].done => fmSessionId # Null)
  /\ [](\A r \in 1..Len(gitEvents) :
          gitEvents[r].event_type = "session_end"
          => \A q \in (r + 1)..Len(gitEvents) :
               gitEvents[q].session_id # gitEvents[r].session_id)

\* C30: no row of either table has an absent session id, and every row a
\* captureSnapshot run writes after a suspension is tagged with the session
\* under which the run copied the pending mapping.
C30_RowsTaggedWithOwnSession ==
  /\ [](\A r \in 1..Len(snapshots) : snapshots[r].session_id # Null)
  /\ [](\A r \in 1..Len(gitEvents) : gitEvents[r].session_id # Null)
  /\ [][\A f \in 1..Len(flushes) :
          ResumeCaptureWith(f, FaultKinds)
          => \A r \in (Len(snapshots) + 1)..Len(snapshots') :
               snapshots'[r].session_id = flushes[f].sids[1]]_vars

\* C29: session rows are never deleted and change only by being closed: a
\* row changes only from active to completed, receiving its end timestamp
\* and keeping every other field, and a completed row never changes again;
\* endSession on an id with no matching active row returns false and
\* modifies nothing.
C29_SessionRowsOnlyClosed ==
  /\ [][/\ Len(sessions') >= Len(sessions)
        /\ \A i \in 1..Len(sessions) :
             \/ sessions'[i] = sessions[i]
             \/ /\ sessions[i].status = "active"
                /\ sessions'[i].end_time # Null
                /\ sessions'[i] = [sessions[i] EXCEPT
                                    !.end_time = sessions'[i].end_time,
                                    !.status = "completed"]]_vars
  /\ [](\A sessionId \in 0..(MaxSessions + 1) :
          (\A i \in ActiveRows : sessions[i].id # sessionId)
            => ~endSessionChanged(sessionId)
               /\ \A time \in ClockReadings :
                    endSession(sessionId, time) = sessions)

\* two sessions were closed one after the other: the second was closed with
\* the completed row of the first in the table
C29_Witness ==
  /\ Len(sessions) = 2
  /\ sessions[1].status = "completed"
  /\ sessions[2].status = "completed"
  /\ sessions[1].end_time # Null
  /\ sessions[1].end_time < sessions[2].end_time

\* the snapshot intervals and the poll intervals that exist
SnapshotTimers == (IF fmInterval THEN 1 ELSE 0) + fmOrphanTimers

PollTimers == (IF gmInterval THEN 1 ELSE 0) + gmOrphanTimers

\* C31: at any time there is at most one snapshot interval and at most one
\* poll interval; with no call in flight an interval exists only while its
\* monitor is watching or monitoring; after stopSession none remains; and no
\* interval fires while its monitor is stopped.
C31_TimersFollowMonitors ==
  /\ [](SnapshotTimers <= 1 /\ PollTimers <= 1)
  /\ [](calls = <<>> /\ SnapshotTimers > 0 => fmIsWatching)
  /\ [](calls = <<>> /\ PollTimers > 0 => gmIsMonitoring)
  /\ [][\A c \in 1..Len(calls) :
          (Returns(c) /\ calls[c].op = "stopSession" /\ result'.success)
          => SnapshotTimers' = 0 /\ PollTimers' = 0]_vars
  /\ [][SnapshotTimer => fmIsWatching]_vars
  /\ [][PollTimer => gmIsMonitoring]_vars

\* C32: whenever the file monitor is watching or the git monitor is
\* monitoring, the sessions table has an active row whose id is that
\* monitor's session id, across every sequence of startSession, stopSession
\* and cleanup.
C32_MonitorsServeActiveSession ==
  /\ [](fmIsWatching => fmSessionId \in ActiveRows
                        /\ sessions[fmSessionId].id = fmSessionId)
  /\ [](gmIsMonitoring => gmSessionId \in ActiveRows
                          /\ sessions[gmSessionId].id = gmSessionId)

\* a second session is running with both monitors after the first was
\* stopped
C32_Witness ==
  /\ Len(sessions) = 2
  /\ sessions[1].status = "completed"
  /\ sessions[2].status = "active"
  /\ calls = <<>>
  /\ fmIsWatching /\ fmSessionId = 2
  /\ gmIsMonitoring /\ gmSessionId = 2

\* C33: within one session no commit hash is recorded in more than one
\* commit event, whatever polls and history changes (commits, resets to an
\* earlier commit) happen.
C33_NoCommitRecordedTwice ==
  \A r, q \in 1..Len(gitEvents) :
    ( /\ r # q
      /\ IsCommitEvent(gitEvents[r])
      /\ IsCommitEvent(gitEvents[q])
      /\ gitEvents[r].session_id = gitEvents[q].session_id )
    => gitEvents[r].commit_hash # gitEvents[q].commit_hash

\* the hash the session_start event of a session carries (Null without one)
BaselineHash(sessionId) ==
  IF \E r \in 1..Len(gitEvents) :
       /\ gitEvents[r].event_type = "session_start"
       /\ gitEvents[r].session_id = sessionId
    THEN gitEvents[CHOOSE r \in 1..Len(gitEvents) :
                     /\ gitEvents[r].event_type = "session_start"
                     /\ gitEvents[r].session_id = sessionId].commit_hash
    ELSE Null

\* C34: while history only grows, when a poll cycle returns each commit of
\* the history it read that was added after the baseline of the session has
\* a commit event of the session, however many commits landed since the
\* poll before.
C34_EveryNewCommitRecorded ==
  [][\A c \in 1..Len(calls) :
       ( /\ PollCompletes(c)
         /\ BaselineHash(calls[c].sid) # Null )
       => \A i \in 1..Len(repoLog) :
            ( /\ repoLog[i] > BaselineHash(calls[c].sid)
              /\ repoLog[i] <= lastCommitHash' )
            => \E r \in 1..Len(gitEvents') :
                 /\ IsCommitEvent(gitEvents'[r])
                 /\ gitEvents'[r].session_id = calls[c].sid
                 /\ gitEvents'[r].commit_hash = repoLog[i]]_vars

\* C35: for every session, over sessions started on repositories and on
\* other directories, a session_end event is written at most once, and only
\* after a session_start event of the same session.
C35_SessionEndFollowsStart ==
  \A r \in 1..Len(gitEvents) :
    gitEvents[r].event_type = "session_end"
      => /\ \E q \in 1..(r - 1) :
              /\ gitEvents[q].event_type = "session_start"
              /\ gitEvents[q].session_id = gitEvents[r].session_id
         /\ \A q \in 1..Len(gitEvents) :
              ( /\ q # r
                /\ gitEvents[q].event_type = "session_end" )
              => gitEvents[q].session_id # gitEvents[r].session_id

\* C36: the coordinator's initialized flag implies that its store
\* connection is open once initialize has returned; a startSession,
\* stopSession, getSessionStatus or isSessionActive after cleanup() opens
\* the connection again and does not fail on the closed store.
C36_InitializedMeansOpen ==
  /\ []((smInitialized /\ calls = <<>>) => smDbOpen)
  /\ [][\A c \in 1..Len(calls) :
          (Ready(c) /\ Step(c, FaultKinds))
          => result'.error # "Failed to get active session"]_vars

\* the rows of tbl from position n + 1 on
RowsAfter(tbl, n) == SubSeq(tbl, n + 1, Len(tbl))

\* C24: startMonitoring on a repository writes exactly one session_start
\* row for the session, carrying the branch and the HEAD hash it read, and
\* sets the last-known branch and hash to those values before it arms the
\* poll timer; a first poll cycle that reads the branch and HEAD of that
\* row has written no branch_change and no commit row when it returns.
C24_BaselineRecordedAtStart ==
  /\ [][\A c \in 1..Len(calls) :
          /\ GitReads(c, "startSession", "gm_branch")
             => After.seen.branch = repoBranch
          /\ Runs(c, "startSession", "gm_branch")
             => After.branch = calls[c].seen.branch /\ UNCHANGED gitEvents
          /\ GitReads(c, "startSession", "gm_log")
             => After.seen.log = <<repoLog[1]>>
          /\ Runs(c, "startSession", "gm_log")
             => /\ Len(calls[c].seen.log) = 1
                /\ RowsAfter(gitEvents', Len(gitEvents))
                     = << [session_id |-> calls[c].id,
                           event_type |-> "session_start",
                           branch_name |-> calls[c].branch,
                           commit_hash |-> calls[c].seen.log[1],
                           files_changed |-> {}] >>
                /\ lastBranch' = calls[c].branch
                /\ lastCommitHash' = calls[c].seen.log[1]
                /\ ~gmInterval'
                /\ EventRows(gitEvents, 0, "session_start") = {}
          /\ ( /\ calls[c].op = "startSession"
               /\ ~Runs(c, "startSession", "gm_log")
               /\ Ready(c)
               /\ Step(c, FaultKinds) )
             => EventRows(gitEvents', Len(gitEvents), "session_start")
                  = {}]_vars
  /\ [][\A c \in 1..Len(calls) :
          ( /\ PollCompletes(c)
            /\ RowsOfSession(gitEvents', calls[c].sid)
                 = {1} \cup { Len(gitEvents') + 1 - i :
                                i \in 1..Len(lastPoll'.wrote) }
            /\ gitEvents'[1].event_type = "session_start"
            /\ gitEvents'[1].branch_name = lastPoll'.branch
            /\ Len(lastPoll'.recent) > 0
            /\ gitEvents'[1].commit_hash = lastPoll'.recent[1] )
          => \A r \in 1..Len(lastPoll'.wrote) :
               lastPoll'.wrote[r].event_type
                 \notin {"branch_change", "commit"}]_vars

\* a session started on the branch feature/x with HEAD at a second commit has
\* been polled once with neither changed
C24_Witness ==
  /\ polls = 1
  /\ calls = <<>>
  /\ lastPoll.pc = "returned"
  /\ lastPoll.branch = "feature/x"
  /\ lastPoll.recent = <<2, 1>>
  /\ gmIsMonitoring
  /\ repoBranch = "feature/x"
  /\ repoLog[1] = 2
  /\ Len(gitEvents) = 1
  /\ gitEvents[1].event_type = "session_start"
  /\ gitEvents[1].branch_name = "feature/x"
  /\ gitEvents[1].commit_hash = 2
  /\ lastBranch = "feature/x"
  /\ lastCommitHash = 2

\* C25: when a step of a poll cycle fails (branch read, log read, status
\* read, diff read of a commit, event write), the poll does not reject and
\* no step of the cycle disarms the poll timer or stops the monitor; the
\* next poll cycle runs, and with its steps succeeding it has written the
\* commit event of a new HEAD when it returns.
C25_PollFailureIsContained ==
  /\ [][\A c \in 1..Len(calls) :
          /\ \/ UNCHANGED <<gmInterval, gmOrphanTimers, gmIsMonitoring,
                            gmGit, gmSessionId>>
             \/ ~( /\ calls[c].op = "poll"
                   /\ Ready(c)
                   /\ Step(c, FaultKinds) )
          /\ (PollReturns(c) /\ lastPoll'.failed)
             => ~lastPoll'.rejected]_vars
  /\ [][\A c \in 1..Len(calls) :
          ( /\ lastPoll.failed
            /\ PollCompletes(c)
            /\ ~lastPoll'.failed
            /\ Len(lastPoll'.recent) > 0
            /\ lastPoll'.recent[1] # lastPoll'.base )
          => /\ \E r \in 1..Len(lastPoll'.wrote) :
                  /\ lastPoll'.wrote[r].event_type = "commit"
                  /\ lastPoll'.wrote[r].commit_hash = lastPoll'.recent[1]
                  /\ lastPoll'.wrote[r].session_id = calls[c].sid
             /\ lastCommitHash' = lastPoll'.recent[1]]_vars

\* a commit was made, the first poll cycle failed at its log read and wrote
\* nothing, and the second cycle, running with the timer still armed, has
\* written the commit event
C25_Witness ==
  /\ polls = 2
  /\ lastPoll.pc = "returned"
  /\ lastPoll.failed
  /\ ~lastPoll.rejected
  /\ lastPoll.recent = <<>>
  /\ lastPoll.wrote = <<>>
  /\ gmIsMonitoring
  /\ gmInterval
  /\ Len(calls) = 1
  /\ calls[1].op = "poll"
  /\ calls[1].pc = "commit_written"
  /\ ~calls[1].failed
  /\ Len(gitEvents) = 2
  /\ gitEvents[2].event_type = "commit"
  /\ gitEvents[2].commit_hash = repoLog[1]

\* C26: a poll cycle whose branch read fails writes no branch_change event
\* and leaves the last-known branch unchanged; branch_change events name a
\* branch of the repository.
C26_FailedBranchReadSkipped ==
  /\ [][\A c \in 1..Len(calls) :
          /\ ( /\ Runs(c, "poll", "branch")
               /\ After.branch = UnknownBranch )
             => /\ lastBranch' = lastBranch
                /\ UNCHANGED gitEvents
                /\ After.pc = "log"
          /\ ( /\ Runs(c, "poll", "branch_written")
               /\ calls[c].branch = UnknownBranch )
             => lastBranch' = lastBranch]_vars
  /\ [](\A r \in 1..Len(gitEvents) :
          gitEvents[r].event_type = "branch_change"
            => gitEvents[r].branch_name \in Branches)

\* C27: in stopSession with a session active, a failure while stopping the
\* file monitor (the close of its watcher rejects) does not prevent the git
\* monitor from being stopped, and a failure while stopping either monitor
\* (also: the write of the session_end event fails) does not prevent the
\* session row from being closed and the call from reporting success.
C27_StopFailuresAreIndependent ==
  [][\A c \in 1..Len(calls) :
       /\ Runs(c, "stopSession", "close")
          => /\ After.pc = "unwatched"
             /\ ~fmIsWatching' /\ ~fmInterval'
       /\ Runs(c, "stopSession", "unwatched")
          => /\ ~gmIsMonitoring' /\ ~gmInterval'
             /\ After.pc = (IF gmGit /\ gmSessionId # Null THEN "gm_end"
                            ELSE "unmonitored")
       /\ Runs(c, "stopSession", "gm_end")
          => /\ ~gmGit' /\ gmSessionId' = Null
             /\ After.pc = "unmonitored"
       /\ ( /\ Runs(c, "stopSession", "unmonitored")
            /\ smDbOpen )
          => /\ calls[c].id \in ActiveRows
             /\ sessions'[calls[c].id].status = "completed"
             /\ sessions'[calls[c].id].end_time # Null
             /\ ActiveRows' = {}
             /\ After.pc = "ended"
             /\ After.stopped
       /\ ( /\ Runs(c, "stopSession", "ended")
            /\ calls[c].err = "" )
          => /\ ~result'.threw
             /\ result'.success
             /\ result'.sessionId = calls[c].id
             /\ currentSession' = Null
             /\ ~gmIsMonitoring' /\ ~gmInterval' /\ ~gmGit'
             /\ ~fmIsWatching' /\ ~fmInterval'
             /\ ActiveRows' = {}]_vars

\* a session whose git monitor was running was stopped while the close of
\* the watcher rejected and the write of the session_end event failed: the
\* file monitor is left with its watcher and session id, the git monitor is
\* stopped and the row is closed
C27_Witness ==
  /\ result.op = "stopSession"
  /\ result.success
  /\ calls = <<>>
  /\ fmWatcher # Null /\ ~fmIsWatching /\ fmSessionId = result.sessionId
  /\ ~gmIsMonitoring /\ ~gmGit /\ gmSessionId = Null
  /\ sessions[result.sessionId].status = "completed"
  /\ EventRows(gitEvents, 0, "session_end") = {}
  /\ \E r \in 1..Len(gitEvents) :
       /\ gitEvents[r].event_type = "session_start"
       /\ gitEvents[r].session_id = result.sessionId

\* the snapshots row of a pending file written by flush f in the session
SnapshotRow(sessionId, fileInfo, f) ==
  [session_id |-> sessionId, file_path |-> fileInfo.path,
   change_type |-> fileInfo.changeType, change |-> fileInfo.timestamp,
   flush |-> f]

\* C28: within one flush, a failure on one pending file (its stat or its
\* row write throws) writes no row for that file and does not end the
\* flush: the flush goes on at once to the files after it, writes the row of
\* the next file whose capture does not fail and waits for that write, and
\* past the last file it clears the pending mapping and returns.
C28_FileFailureDoesNotAbortFlush ==
  /\ [][( /\ fmIsWatching
          /\ fmSessionId # Null
          /\ Len(activeFiles) > 0
          /\ SnapshotTimerFaulty )
        => \/ /\ Len(flushes') = Len(flushes) + 1
              /\ ~flushes'[Len(flushes')].done
              /\ flushes'[Len(flushes')].filesToCapture = activeFiles
              /\ flushes'[Len(flushes')].idx \in 1..Len(activeFiles)
              /\ snapshots' =
                   Append(snapshots,
                     SnapshotRow(fmSessionId,
                       activeFiles[flushes'[Len(flushes')].idx],
                       Len(flushes')))
              /\ activeFiles' = activeFiles
           \/ /\ flushes' = flushes
              /\ snapshots' = snapshots
              /\ activeFiles' = <<>>]_vars
  /\ [][\A f \in 1..Len(flushes) :
          ( /\ ~flushes[f].done
            /\ ResumeCaptureWith(f, {"file"}) )
          => \/ /\ ~flushes'[f].done
                /\ flushes'[f].idx
                     \in (flushes[f].idx + 1)..Len(flushes[f].filesToCapture)
                /\ snapshots' =
                     Append(snapshots,
                       SnapshotRow(fmSessionId,
                         flushes[f].filesToCapture[flushes'[f].idx], f))
                /\ activeFiles' = activeFiles
             \/ /\ flushes'[f].done
                /\ snapshots' = snapshots
                /\ activeFiles' = <<>>]_vars

\* a flush of two pending files whose first capture failed has written the
\* row of the second file and no other
C28_Witness ==
  /\ Len(flushes) = 1
  /\ ~flushes[1].done
  /\ Len(flushes[1].filesToCapture) = 2
  /\ flushes[1].idx = 2
  /\ snapshots = << SnapshotRow(fmSessionId, flushes[1].filesToCapture[2],
                                1) >>

====
